---- MODULE Spec2Model ----
(***************************************************************************)
(* The poll coordinator of the Easun inverter integration                  *)
(* (custom_components/easun_inverter/sensor.py) together with the part of  *)
(* the inverter client it drives (easunpy/async_isolar.py,                 *)
(* easunpy/async_modbusclient.py).                                         *)
(*                                                                         *)
(* Every firing of the periodic scheduler is one invocation of             *)
(* update_data_collector; an invocation that gets past the is_updating     *)
(* guard is called a run.  Runs are coroutines on one asyncio event loop:  *)
(* the code between two awaits is one atomic step and a run's position is  *)
(* its pc.                                                                 *)
(*                                                                         *)
(* Time: every instant the code remembers (datetime.now() at the start of  *)
(* an update, the start of a wait_for or of a sleep) is kept as its age,   *)
(* the seconds elapsed since then.  Advance lets TimeStep seconds pass.    *)
(* An age stops growing once it is past every deadline it is compared      *)
(* with.  The timers of asyncio.wait_for fire when their deadline is       *)
(* reached, in any order with the other steps of that instant; what runs   *)
(* after a cancellation (finally clauses awaiting _cleanup_server) has no  *)
(* deadline.                                                               *)
(***************************************************************************)
EXTENDS Integers, Sequences, FiniteSets, Bags, TLC

\* ---------------------------------------------------------------- bounds
MaxRuns == 3
TimeStep == 5
\* longest register map drawn from Addresses
MaxRegs == 3
\* number of _create_register_groups() calls on one register map
MaxCalls == 2
\* most responses of one bulk session that are not the response asked for
MaxFaults == 2
\* number of callers of _read_registers_bulk: the poll and the service calls
MaxCallers == 2
\* number of _read_registers_bulk calls that are followed
MaxSessions == 2
\* most inbound connections during one send_bulk attempt
MaxConns == 2
\* most registers of a response that is encoded and decoded
MaxWords == 2
\* most consecutive failures of send_udp_discovery that are followed
MaxUdpFailures == 7

\* ------------------------------------------------------ program constants
update_timeout == 30
scheduler_buffer == 5
max_backoff == 30

None == -1

\* AsyncISolar._transaction_id after construction
first_transaction_id == 1906

\* retry_count of send_bulk
retry_count == 5

\* attempts of one send_udp_discovery
discovery_attempts == 3

\* the five entries of DataCollector._data
Keys == {"battery", "pv", "grid", "output", "system"}

\* what one get_all_data() call can return: the set of its non-null
\* records. PVData and SystemStatus are never among them (see DataObject)
PollResults == {{}, {"grid"}, {"battery", "grid", "output"}}

\* values of _consecutive_failures left by the polls before the first
\* firing that is modelled
InitFailures == {0, 4}

VARIABLES
    ticked,               \* the scheduler has fired at the current instant
    is_updating,          \* closure variable of async_setup_entry
    last_update_start,    \* age of DataCollector._last_update_start, or None
    consecutive_failures, \* DataCollector._consecutive_failures
    data,                 \* DataCollector._data
    stored_by,            \* the run whose _do_update wrote data (0: nobody yet)
    sensors,              \* EasunSensor._state / _available, one per data type
    last_notified,        \* the run whose update_data last refreshed the sensors
    lock,                 \* DataCollector._lock: 0 free, else the run holding it
    lock_waiters,         \* DataCollector._lock waiters, FIFO
    runs,                 \* the invocations of update_data_collector that started an update
    udp_open,             \* the datagram endpoint of send_udp_discovery exists
    server,               \* AsyncModbusClient._server is bound and serving
    active_connections,   \* size of AsyncModbusClient._active_connections
    register_map,         \* ModelConfig.register_map: the addresses, in dict order
    groups,               \* what the last _create_register_groups() returned
    first_groups,         \* what the first _create_register_groups() returned
    calls,                \* number of _create_register_groups() calls so far
    model,                \* AsyncISolar.model
    responses,            \* what send_bulk() returned to _read_registers_bulk
    decoded_groups,       \* the slots _read_registers_bulk returned
    all_data,             \* the five records get_all_data() returned
    stage,                \* how far the poll of get_all_data() has come
    transaction_id,       \* AsyncISolar._transaction_id
    client_lock,          \* the caller that holds AsyncModbusClient._lock, 0 if free
    client_waiters,       \* the callers waiting for AsyncModbusClient._lock, FIFO
    senders,              \* the callers of _read_registers_bulk and their send_bulk frames
    listeners,            \* number of TCP listeners the client has bound
    conns,                \* the handle_bulk_client tasks of the server: how many are at which command
    accepted,             \* number of connections accepted since the last start_server
    bulk,                 \* the responses list of the current send_bulk attempt
    response_future,      \* the response_future of the current send_bulk attempt
    origin,               \* for each response returned to the poll, what it answered
    sessions,             \* number of _read_registers_bulk calls so far
    codec,                \* one request built and parsed, one response decoded
    discovery,            \* one send_udp_discovery call and _consecutive_udp_failures
    unserved,             \* accepted connections whose handle_bulk_client task has not run yet
    strays                \* handle_bulk_client tasks whose attempt is over, by caller

\* the variables of the poll coordinator
coordinator == <<ticked, is_updating, last_update_start, consecutive_failures,
                 data, stored_by, sensors, last_notified, lock, lock_waiters, runs,
                 udp_open, server, active_connections>>
\* the variables of the register grouping
grouping == <<register_map, groups, first_groups, calls>>

\* the variables of one get_all_data() call
decoding == <<model, responses, decoded_groups, all_data, stage>>

\* the variables of AsyncISolar and AsyncModbusClient that one bulk session
\* goes through
session == <<transaction_id, client_lock, client_waiters, senders, listeners,
             conns, accepted, bulk, response_future, origin, sessions>>

\* the variables of the frame codec on its own
framing == <<codec>>

\* the variables of send_udp_discovery on its own
kicking == <<discovery>>

\* the connections that _cleanup_server does not find
teardown == <<unserved, strays>>

\* what no step of a bulk session touches
beside_session == <<framing, kicking, teardown>>

\* what no step of the poll coordinator touches
beside_coordinator == <<grouping, decoding, session, framing, kicking, teardown>>

vars == <<coordinator, grouping, decoding, session, framing, kicking, teardown>>

collector == <<consecutive_failures, data, stored_by, sensors, last_notified>>
transport == <<udp_open, server, active_connections>>

RunIds == 1..MaxRuns
Live == 1..Len(runs)

\* positions of a run in which its _do_update task is inside get_all_data()
PollPcs == {"discover", "listen", "exchange", "cleanup"}
\* positions in which the _do_update task exists and has not finished
TaskPcs == PollPcs \cup {"backoff"}

\* the record poll p contributed for key k, given the records it returned
Record(p, res, k) == IF k \in res THEN p ELSE None

\* the five records of the snapshot poll p returned
Snapshot(p, res) == [k \in Keys |-> Record(p, res, k)]

NewRun ==
    [pc |-> "lock", tick_age |-> 0, poll_age |-> None, sleep_age |-> None,
     delay |-> 0, next |-> "none", returned |-> FALSE, result |-> {},
     outcome |-> "none", stuck |-> FALSE]

\* what is kept of a run once update_data_collector has returned
DoneRun(o) ==
    [pc |-> "done", tick_age |-> None, poll_age |-> None, sleep_age |-> None,
     delay |-> 0, next |-> "none", returned |-> FALSE, result |-> {},
     outcome |-> o, stuck |-> FALSE]

Set(r, f) == [runs EXCEPT ![r] = f]

\* ------------------------------------------------------------------ Init
InitCoordinator ==
    /\ ticked = FALSE
    /\ is_updating = FALSE
    /\ last_update_start = None
    /\ consecutive_failures \in InitFailures
    /\ data = [k \in Keys |-> None]
    /\ stored_by = 0
    /\ sensors = [k \in Keys |-> [state |-> None, available |-> TRUE]]
    /\ last_notified = 0
    /\ lock = 0
    /\ lock_waiters = <<>>
    /\ runs = <<>>
    /\ udp_open = FALSE
    /\ server = FALSE
    /\ active_connections = 0

\* no register groups have been asked for
InitGrouping ==
    /\ register_map = <<>>
    /\ groups = <<>>
    /\ first_groups = <<>>
    /\ calls = 0

\* no get_all_data() call has been followed: the model is the default one
InitDecoding ==
    /\ model = "ISOLAR_SMG_II_11K"
    /\ responses = <<>>
    /\ decoded_groups = <<>>
    /\ all_data = [k \in Keys |-> [present |-> FALSE]]
    /\ stage = "idle"

\* the callers of _read_registers_bulk: the poll and the register_scan
\* service calls
Callers == 1..MaxCallers

\* a caller that is not inside _read_registers_bulk
IdleSender ==
    [pc |-> "idle", attempt |-> 0, kick |-> 0, acked |-> FALSE, requests |-> <<>>,
     register_groups |-> <<>>]

\* AsyncISolar and AsyncModbusClient after construction
InitSession ==
    /\ transaction_id = first_transaction_id
    /\ client_lock = 0
    /\ client_waiters = <<>>
    /\ senders = [c \in Callers |-> IdleSender]
    /\ listeners = 0
    /\ conns = EmptyBag
    /\ accepted = 0
    /\ bulk = <<>>
    /\ response_future = "none"
    /\ origin = <<>>
    /\ sessions = 0

\* no frame has been handed to the codec on its own
InitCodec ==
    codec = [pc |-> "idle", tx |-> 0, start |-> 0, count |-> 0, request |-> <<>>,
             registers |-> <<>>, words |-> <<>>, data_format |-> "Int",
             response |-> <<>>, decoded |-> <<>>]

\* AsyncModbusClient after construction: no discovery has failed
InitKicking ==
    discovery = [pc |-> "idle", attempt |-> 0, timeout |-> 0, failures |-> 0,
                 kicks |-> 0, got |-> "none", result |-> "none", last |-> "none"]

\* no connection has been accepted
InitTeardown ==
    /\ unserved = EmptyBag
    /\ strays = EmptyBag

InitAside == InitCodec /\ InitKicking /\ InitTeardown

Init == InitCoordinator /\ InitGrouping /\ InitDecoding /\ InitSession /\ InitAside

\* --------------------------------------------------------------- the clock
\* age a after TimeStep more seconds; limit is the largest deadline a is
\* compared with
Older(a, limit) ==
    IF a = None \/ a >= limit THEN a ELSE a + TimeStep

\* a wait_for of run r has reached its deadline and has not fired
Overdue(r) ==
    /\ runs[r].outcome = "none"
    /\ \/ runs[r].pc \in TaskPcs /\ runs[r].poll_age >= update_timeout
       \/ runs[r].pc \in TaskPcs \cup {"lock"}
            /\ runs[r].tick_age >= update_timeout + scheduler_buffer

\* run r is between two callbacks of the same loop iteration: its task has
\* finished and the coroutine awaiting it has not resumed yet, or the lock
\* it is first in line for is free (asyncio.Lock.acquire does not wait then)
Resuming(r) ==
    \/ runs[r].pc \in {"stored", "finishing"}
    \/ /\ runs[r].pc = "lock"
       /\ lock = 0
       /\ lock_waiters # <<>>
       /\ Head(lock_waiters) = r

Advance ==
    /\ \A r \in Live : ~Overdue(r) /\ ~Resuming(r)
    /\ ticked' = FALSE
    /\ last_update_start' = Older(last_update_start, update_timeout + 1)
    /\ runs' = [r \in Live |->
                  [runs[r] EXCEPT
                     !.tick_age = Older(@, update_timeout + scheduler_buffer),
                     !.poll_age = Older(@, update_timeout),
                     !.sleep_age = Older(@, runs[r].delay)]]
    /\ UNCHANGED <<is_updating, collector, lock, lock_waiters, transport>>

\* ------------------------------------------------------- DataCollector
\* is_update_stuck with >= for >
is_update_stuck_ge ==
    IF last_update_start = None
    THEN FALSE
    ELSE last_update_start >= update_timeout

\* is_update_stuck measured against the scheduler's timeout
is_update_stuck_late ==
    IF last_update_start = None
    THEN FALSE
    ELSE last_update_start > update_timeout + scheduler_buffer

is_update_stuck ==
    IF last_update_start = None
    THEN FALSE
    ELSE last_update_start > update_timeout

get_data(k) == data[k]

\* EasunSensor.update_from_collector for the sensor of data type k
update_from_collector(d, s) ==
    IF d # None
    THEN [state |-> d, available |-> TRUE]
    ELSE [s EXCEPT !.available = FALSE]

\* ------------------------------------------------ update_data_collector
\* One firing of async_track_time_interval: the synchronous prefix of
\* update_data_collector, up to the await of update_data().
update_data_collector ==
    /\ ~ticked
    /\ ticked' = TRUE
    /\ IF is_updating /\ ~is_update_stuck
       THEN UNCHANGED <<is_updating, last_update_start, collector,
                        lock, lock_waiters, runs, transport>>
       ELSE /\ Len(runs) < MaxRuns
            /\ is_updating' = TRUE
            /\ last_update_start' = 0
            /\ runs' = Append([r \in Live |->
                                 IF is_updating /\ r = Len(runs)
                                 THEN [runs[r] EXCEPT !.stuck = TRUE]
                                 ELSE runs[r]],
                              NewRun)
            /\ lock_waiters' = Append(lock_waiters, Len(runs) + 1)
            /\ UNCHANGED <<collector, lock, transport>>

\* update_data on a lock that wakes any waiter, not the first
update_data_unfair(r) ==
    /\ runs[r].pc = "lock"
    /\ lock = 0
    /\ lock' = r
    /\ lock_waiters' = SelectSeq(lock_waiters, LAMBDA w : w # r)
    /\ runs' = Set(r, [runs[r] EXCEPT !.pc = "discover", !.poll_age = 0])
    /\ UNCHANGED <<ticked, is_updating, last_update_start, collector, transport>>

\* update_data without the lock
update_data_unlocked(r) ==
    /\ runs[r].pc = "lock"
    /\ lock' = r
    /\ lock_waiters' = SelectSeq(lock_waiters, LAMBDA w : w # r)
    /\ runs' = Set(r, [runs[r] EXCEPT !.pc = "discover", !.poll_age = 0])
    /\ UNCHANGED <<ticked, is_updating, last_update_start, collector, transport>>

\* update_data: self._lock.acquire() succeeds; the _do_update task is
\* created and wait_for(update_task, 30) starts its timer.
update_data(r) ==
    /\ runs[r].pc = "lock"
    /\ lock = 0
    /\ lock_waiters # <<>>
    /\ Head(lock_waiters) = r
    /\ lock' = r
    /\ lock_waiters' = Tail(lock_waiters)
    /\ runs' = Set(r, [runs[r] EXCEPT !.pc = "discover", !.poll_age = 0])
    /\ UNCHANGED <<ticked, is_updating, last_update_start, collector, transport>>

\* ------------------------------------------------------------ _do_update
\* lines 93-100: the five records are assigned, the failure counter is set
\* and the task returns to update_data
store_snapshot(r, res, failures, snapshot) ==
    /\ data' = snapshot
    /\ stored_by' = r
    /\ consecutive_failures' = failures
    /\ runs' = Set(r, [runs[r] EXCEPT !.pc = "stored", !.returned = TRUE,
                                      !.result = res, !.next = "none"])
    /\ UNCHANGED <<sensors, last_notified>>

\* lines 90-91 and 101-105: the raise on five None records, the counter,
\* the delay and the start of asyncio.sleep(delay)
back_off(r, res) ==
    /\ consecutive_failures' = consecutive_failures + 1
    /\ runs' = Set(r, [runs[r] EXCEPT
                         !.pc = "backoff", !.returned = TRUE, !.result = res,
                         !.next = "none", !.sleep_age = 0,
                         !.delay = IF 2 ^ (consecutive_failures + 1) < max_backoff
                                   THEN 2 ^ (consecutive_failures + 1)
                                   ELSE max_backoff])
    /\ UNCHANGED <<data, stored_by, sensors, last_notified>>

\* _do_update that leaves _consecutive_failures alone on success
do_update_no_reset(r, res) ==
    IF res # {}
    THEN store_snapshot(r, res, consecutive_failures, Snapshot(r, res))
    ELSE back_off(r, res)

\* _do_update that assigns only the records that are not None
do_update_merge(r, res) ==
    IF res # {}
    THEN store_snapshot(r, res, 0, [k \in Keys |-> IF k \in res THEN r ELSE data[k]])
    ELSE back_off(r, res)

\* _do_update from the return of get_all_data() on: lines 90-100 on a
\* snapshot with a non-null record, lines 90-91 and 101-106 otherwise.
do_update(r, res) ==
    IF res # {}
    THEN store_snapshot(r, res, 0, Snapshot(r, res))
    ELSE back_off(r, res)

\* --------------------------------------------------- AsyncModbusClient
\* send_udp_discovery: create_datagram_endpoint, the kick is sent
send_udp_discovery(r) ==
    /\ runs[r].pc = "discover"
    /\ ~udp_open
    /\ udp_open' = TRUE
    /\ UNCHANGED <<ticked, is_updating, last_update_start, collector,
                   lock, lock_waiters, runs, server, active_connections>>

\* a datagram came back: the endpoint is closed and send_bulk binds the listener
udp_ack(r) ==
    /\ runs[r].pc = "discover"
    /\ udp_open
    /\ udp_open' = FALSE
    /\ server' = TRUE
    /\ runs' = Set(r, [runs[r] EXCEPT !.pc = "listen"])
    /\ UNCHANGED <<ticked, is_updating, last_update_start, collector,
                   lock, lock_waiters, active_connections>>

\* send_udp_discovery returned False: next attempt of send_bulk, or [] on
\* the last one (last), with which get_all_data returns five nulls
udp_no_ack(r, last) ==
    /\ runs[r].pc = "discover"
    /\ udp_open
    /\ udp_open' = FALSE
    /\ IF last
       THEN do_update(r, {})
       ELSE UNCHANGED <<runs, collector>>
    /\ UNCHANGED <<ticked, is_updating, last_update_start,
                   lock, lock_waiters, server, active_connections>>

\* the inverter dials back: handle_bulk_client tracks the connection
handle_bulk_client(r) ==
    /\ runs[r].pc = "listen"
    /\ active_connections' = active_connections + 1
    /\ runs' = Set(r, [runs[r] EXCEPT !.pc = "exchange"])
    /\ UNCHANGED <<ticked, is_updating, last_update_start, collector,
                   lock, lock_waiters, udp_open, server>>

\* the handler ends with at least one response collected; res is what the
\* responses decode to.  The handler closes its connection, send_bulk
\* returns the responses through its finally: _cleanup_server()
exchange_done(r, res) ==
    /\ runs[r].pc = "exchange"
    /\ active_connections' = active_connections - 1
    /\ runs' = Set(r, [runs[r] EXCEPT !.pc = "cleanup", !.next = "return",
                                      !.result = res])
    /\ UNCHANGED <<ticked, is_updating, last_update_start, collector,
                   lock, lock_waiters, udp_open, server>>

\* the handler ends with no response at all: the attempt is lost
exchange_failed(r) ==
    /\ runs[r].pc = "exchange"
    /\ active_connections' = active_connections - 1
    /\ runs' = Set(r, [runs[r] EXCEPT !.pc = "cleanup", !.next = "retry"])
    /\ UNCHANGED <<ticked, is_updating, last_update_start, collector,
                   lock, lock_waiters, udp_open, server>>

\* wait_for(response_future, timeout=10) expires
response_timed_out(r) ==
    /\ runs[r].pc \in {"listen", "exchange"}
    /\ runs' = Set(r, [runs[r] EXCEPT !.pc = "cleanup", !.next = "retry"])
    /\ UNCHANGED <<ticked, is_updating, last_update_start, collector,
                   lock, lock_waiters, transport>>

\* _cleanup_server has closed the tracked connections and the listener;
\* what follows depends on why send_bulk was cleaning up
cleanup_server(r, last) ==
    /\ runs[r].pc = "cleanup"
    /\ server' = FALSE
    /\ active_connections' = 0
    /\ UNCHANGED <<ticked, is_updating, last_update_start, lock_waiters, udp_open>>
    /\ CASE runs[r].next = "return" ->
              /\ do_update(r, runs[r].result)
              /\ UNCHANGED lock
         [] runs[r].next = "retry" /\ last ->
              /\ do_update(r, {})
              /\ UNCHANGED lock
         [] runs[r].next = "retry" /\ ~last ->
              /\ runs' = Set(r, [runs[r] EXCEPT !.pc = "discover", !.next = "none"])
              /\ UNCHANGED <<collector, lock>>
         [] runs[r].next = "cancelled" ->
              /\ runs' = Set(r, [runs[r] EXCEPT !.pc = "finishing"])
              /\ lock' = 0
              /\ UNCHANGED collector

\* ---------------------------------------------- update_data, second half
\* wait_for(update_task) returned: every registered sensor is refreshed
\* (lines 70-72) and the lock is released (line 83)
update_sensors(r) ==
    /\ runs[r].pc = "stored"
    /\ sensors' = [k \in Keys |-> update_from_collector(get_data(k), sensors[k])]
    /\ last_notified' = r
    /\ lock' = 0
    /\ runs' = Set(r, [runs[r] EXCEPT !.pc = "finishing", !.outcome = "success",
                                      !.poll_age = None])
    /\ UNCHANGED <<ticked, is_updating, last_update_start,
                   consecutive_failures, data, stored_by, lock_waiters, transport>>

\* asyncio.sleep(delay) of the except branch of _do_update is over; the
\* exception is re-raised through update_data, which releases the lock
backoff_done(r) ==
    /\ runs[r].pc = "backoff"
    /\ runs[r].sleep_age >= runs[r].delay
    /\ lock' = 0
    /\ runs' = Set(r, [runs[r] EXCEPT !.pc = "finishing", !.outcome = "failed",
                                      !.poll_age = None, !.sleep_age = None])
    /\ UNCHANGED <<ticked, is_updating, last_update_start, collector,
                   lock_waiters, transport>>

\* cancel whose update_data does not release the lock when the sleep of
\* the backoff is cancelled
cancel_keeps_lock(r, why) ==
    CASE runs[r].pc = "lock" ->
           /\ lock_waiters' = SelectSeq(lock_waiters, LAMBDA w : w # r)
           /\ runs' = Set(r, [runs[r] EXCEPT !.pc = "finishing", !.outcome = why])
           /\ UNCHANGED <<lock, transport>>
      [] runs[r].pc = "discover" ->
           /\ udp_open' = FALSE
           /\ lock' = 0
           /\ runs' = Set(r, [runs[r] EXCEPT !.pc = "finishing", !.outcome = why,
                                             !.poll_age = None])
           /\ UNCHANGED <<lock_waiters, server, active_connections>>
      [] runs[r].pc = "backoff" ->
           /\ runs' = Set(r, [runs[r] EXCEPT !.pc = "finishing", !.outcome = why,
                                             !.poll_age = None, !.sleep_age = None])
           /\ UNCHANGED <<lock, lock_waiters, transport>>
      [] runs[r].pc \in {"listen", "exchange", "cleanup"} ->
           /\ runs' = Set(r, [runs[r] EXCEPT !.pc = "cleanup", !.next = "cancelled",
                                             !.outcome = why, !.poll_age = None])
           /\ UNCHANGED <<lock, lock_waiters, transport>>

\* A CancelledError is thrown into run r at its current await.  It is not an
\* Exception, so no except clause of _do_update, _read_registers_bulk or
\* send_bulk handles it; only the finally clauses run.
cancel(r, why) ==
    CASE runs[r].pc = "lock" ->
           /\ lock_waiters' = SelectSeq(lock_waiters, LAMBDA w : w # r)
           /\ runs' = Set(r, [runs[r] EXCEPT !.pc = "finishing", !.outcome = why])
           /\ UNCHANGED <<lock, transport>>
      [] runs[r].pc = "discover" ->
           /\ udp_open' = FALSE
           /\ lock' = 0
           /\ runs' = Set(r, [runs[r] EXCEPT !.pc = "finishing", !.outcome = why,
                                             !.poll_age = None])
           /\ UNCHANGED <<lock_waiters, server, active_connections>>
      [] runs[r].pc = "backoff" ->
           /\ lock' = 0
           /\ runs' = Set(r, [runs[r] EXCEPT !.pc = "finishing", !.outcome = why,
                                             !.poll_age = None, !.sleep_age = None])
           /\ UNCHANGED <<lock_waiters, transport>>
      [] runs[r].pc \in {"listen", "exchange", "cleanup"} ->
           /\ runs' = Set(r, [runs[r] EXCEPT !.pc = "cleanup", !.next = "cancelled",
                                             !.outcome = why, !.poll_age = None])
           /\ UNCHANGED <<lock, lock_waiters, transport>>

\* wait_for(update_task, timeout=self._update_timeout) of update_data expires
update_timed_out(r) ==
    /\ runs[r].pc \in TaskPcs
    /\ runs[r].outcome = "none"
    /\ runs[r].poll_age >= update_timeout
    /\ cancel(r, "timeout")
    /\ UNCHANGED <<ticked, is_updating, last_update_start, collector>>

\* wait_for(update_data(), timeout=_update_timeout + 5) of
\* update_data_collector expires
scheduler_timed_out(r) ==
    /\ runs[r].pc \in TaskPcs \cup {"lock"}
    /\ runs[r].outcome = "none"
    /\ runs[r].tick_age >= update_timeout + scheduler_buffer
    /\ cancel(r, "sched_timeout")
    /\ UNCHANGED <<ticked, is_updating, last_update_start, collector>>

\* the finally clause of update_data_collector
update_finished(r) ==
    /\ runs[r].pc = "finishing"
    /\ is_updating' = FALSE
    /\ last_update_start' = None
    /\ runs' = Set(r, DoneRun(runs[r].outcome))
    /\ UNCHANGED <<ticked, collector, lock, lock_waiters, transport>>

\* ------------------------------------------------------- register groups
\* the logical names of a register map, in the order models.py lists them
RegisterNames ==
    <<"operation_mode", "battery_voltage", "battery_current", "battery_power",
      "battery_soc", "battery_temperature", "pv_total_power", "pv_charging_power",
      "pv_charging_current", "pv_temperature", "pv1_voltage", "pv1_current",
      "pv1_power", "pv2_voltage", "pv2_current", "pv2_power", "grid_voltage",
      "grid_current", "grid_power", "grid_frequency", "output_voltage",
      "output_current", "output_power", "output_apparent_power",
      "output_load_percentage", "output_frequency", "time_register_0",
      "time_register_1", "time_register_2", "time_register_3", "time_register_4",
      "time_register_5", "pv_energy_today", "pv_energy_total">>

\* the addresses of the two register maps of models.py, name by name
ISOLAR_SMG_II_11K ==
    <<201, 277, 278, 279, 280, 281, 302, 303, 304, 305, 351, 352, 353, 389, 390,
      391, 338, 339, 340, 607, 346, 347, 348, 349, 350, 607, 696, 697, 698, 699,
      700, 701, 702, 703>>

ISOLAR_SMG_II_6K ==
    <<201, 215, 216, 217, 229, 226, 223, 224, 234, 227, 219, 220, 223, 0, 0, 0,
      202, 0, 204, 203, 210, 211, 213, 214, 225, 212, 696, 697, 698, 699, 700,
      701, 0, 0>>

MODEL_CONFIGS ==
    [ISOLAR_SMG_II_11K |-> ISOLAR_SMG_II_11K, ISOLAR_SMG_II_6K |-> ISOLAR_SMG_II_6K]

\* addresses of the register maps that are drawn besides the two of models.py:
\* 0 is "not supported"; the others have gaps of 1, 9, 10, 11 and 12
Addresses == {0, 1, 2, 11, 12, 23}

\* the register maps a ModelConfig is given: the two of models.py, the short
\* ones over Addresses, and one that gives the 34 names addresses ten apart
RegisterMaps ==
    {MODEL_CONFIGS[m] : m \in DOMAIN MODEL_CONFIGS}
        \cup UNION {[1..n -> Addresses] : n \in 0..MaxRegs}
        \cup {[i \in DOMAIN RegisterNames |-> 100 + 10 * (i - 1)]}

\* largest gap between two addresses of one group
max_gap == 10

\* lines 126-140: the loop over addresses[1:] and the append of the last
\* group; gap is the 10 of line 131
RECURSIVE group_loop(_, _, _, _, _, _)
group_loop(gap, addresses, k, current_start, current_end, acc) ==
    IF k > Len(addresses)
    THEN Append(acc, <<current_start, current_end - current_start + 1>>)
    ELSE IF addresses[k] <= current_end + gap
         THEN group_loop(gap, addresses, k + 1, current_start, addresses[k], acc)
         ELSE group_loop(gap, addresses, k + 1, addresses[k], addresses[k],
                         Append(acc, <<current_start, current_end - current_start + 1>>))

\* _create_register_groups that keeps the addresses that are 0
create_register_groups_with_zero(map) ==
    LET addresses == SortSeq(SelectSeq(map, LAMBDA a : a >= 0), <)
    IN  IF addresses = <<>>
        THEN <<>>
        ELSE group_loop(max_gap, addresses, 2, addresses[1], addresses[1], <<>>)

\* _create_register_groups that does not sort the addresses
create_register_groups_unsorted(map) ==
    LET addresses == SelectSeq(map, LAMBDA a : a > 0)
    IN  IF addresses = <<>>
        THEN <<>>
        ELSE group_loop(max_gap, addresses, 2, addresses[1], addresses[1], <<>>)

\* _create_register_groups that extends a group only while the gap is below 10
create_register_groups_lt(map) ==
    LET addresses == SortSeq(SelectSeq(map, LAMBDA a : a > 0), <)
    IN  IF addresses = <<>>
        THEN <<>>
        ELSE group_loop(max_gap - 1, addresses, 2, addresses[1], addresses[1], <<>>)

\* _create_register_groups that merges addresses up to 1000 apart
create_register_groups_wide(map) ==
    LET addresses == SortSeq(SelectSeq(map, LAMBDA a : a > 0), <)
    IN  IF addresses = <<>>
        THEN <<>>
        ELSE group_loop(1000, addresses, 2, addresses[1], addresses[1], <<>>)

\* AsyncISolar._create_register_groups
create_register_groups(map) ==
    LET addresses == SortSeq(SelectSeq(map, LAMBDA a : a > 0), <)
    IN  IF addresses = <<>>
        THEN <<>>
        ELSE group_loop(max_gap, addresses, 2, addresses[1], addresses[1], <<>>)

\* a caller (get_all_data) asks for the register groups of the active model
call_create_register_groups ==
    /\ calls < MaxCalls
    /\ groups' = create_register_groups(register_map)
    /\ first_groups' = IF calls = 0 THEN groups' ELSE first_groups
    /\ calls' = calls + 1
    /\ UNCHANGED <<register_map, coordinator, decoding, session>>
    /\ UNCHANGED beside_session

\* an AsyncISolar whose model has any of the register maps drawn, and no
\* poll under way
GroupsInit ==
    /\ InitCoordinator
    /\ consecutive_failures = 0
    /\ register_map \in RegisterMaps
    /\ groups = <<>>
    /\ first_groups = <<>>
    /\ calls = 0
    /\ InitDecoding
    /\ InitSession
    /\ InitAside

GroupsNext == call_create_register_groups

GroupsSpec == GroupsInit /\ [][GroupsNext]_vars

Models == DOMAIN MODEL_CONFIGS

\* the register groups of the two models
MODEL_GROUPS == [m \in Models |-> create_register_groups(MODEL_CONFIGS[m])]

\* the register groups handle_register_scan asks for with the defaults of the
\* service call: start_register 0, register_count 5
ScanGroups == <<<<0, 5>>>>

\* every group that is read
ReadGroups ==
    UNION {{MODEL_GROUPS[m][i] : i \in DOMAIN MODEL_GROUPS[m]} : m \in Models}
        \cup {ScanGroups[i] : i \in DOMAIN ScanGroups}

\* ------------------------------------------------------------ frame codec
\* bitwise exclusive or of two naturals
RECURSIVE Xor(_, _)
Xor(a, b) ==
    IF a = 0 THEN b
    ELSE IF b = 0 THEN a
    ELSE ((a + b) % 2) + 2 * Xor(a \div 2, b \div 2)

\* one bit of the reflected CRC-16 with polynomial 0xA001
crc_shift(c) == IF c % 2 = 1 THEN Xor(c \div 2, 40961) ELSE c \div 2

crc_byte(c, b) ==
    crc_shift(crc_shift(crc_shift(crc_shift(
        crc_shift(crc_shift(crc_shift(crc_shift(Xor(c, b)))))))))

\* the loop over the bytes; c is a 16-bit value at every round
RECURSIVE crc_loop(_, _, _)
crc_loop(bytes, k, c) ==
    IF c <= 65535 /\ k <= Len(bytes)
    THEN crc_loop(bytes, k + 1, crc_byte(c, bytes[k]))
    ELSE c

\* the CRCs of the RTU packets of the requests for the groups that are
\* read, computed once
crc_table ==
    [bytes \in {<<0, 3, g[1] \div 256, g[1] % 256, g[2] \div 256, g[2] % 256>> :
                    g \in ReadGroups} |->
        crc_loop(bytes, 1, 65535)]

\* easunpy.crc.crc16_modbus: Modbus CRC-16, initial value 0xFFFF
crc16_modbus(bytes) ==
    IF bytes \in DOMAIN crc_table THEN crc_table[bytes] ELSE crc_loop(bytes, 1, 65535)

\* s[a:b] of Python on a byte string, with 1-based inclusive bounds: the
\* part of s that exists between positions a and b
Slice(s, a, b) == SubSeq(s, a, IF b < Len(s) THEN b ELSE Len(s))

\* int(hex, 16) of one or two bytes, most significant first
BigEndian(bs) == IF Len(bs) = 1 THEN bs[1] ELSE 256 * bs[1] + bs[2]

\* a slot of decoded_groups: None, or the list of register values
NullSlot == [ok |-> FALSE, values |-> <<>>]

\* decode_modbus_response that reads every register as unsigned
decode_values_unsigned(data_bytes, register_count, data_format) ==
    IF \/ data_format \notin {"Int", "UnsignedInt"}
       \/ \E i \in 1..register_count : Slice(data_bytes, 2 * i - 1, 2 * i) = <<>>
    THEN NullSlot
    ELSE [ok |-> TRUE,
          values |-> [i \in 1..register_count |->
                        BigEndian(Slice(data_bytes, 2 * i - 1, 2 * i))]]

\* lines 162-176: the register values of data_bytes, or the ValueError of
\* int('', 16) when a register has no byte at all
decode_values(data_bytes, register_count, data_format) ==
    IF \/ data_format \notin {"Int", "UnsignedInt"}
       \/ \E i \in 1..register_count : Slice(data_bytes, 2 * i - 1, 2 * i) = <<>>
    THEN NullSlot
    ELSE [ok |-> TRUE,
          values |-> [i \in 1..register_count |->
                        LET value == BigEndian(Slice(data_bytes, 2 * i - 1, 2 * i))
                        IN  IF data_format = "Int" /\ value >= 32768
                            THEN value - 65536
                            ELSE value]]

\* modbusclient.decode_modbus_response on the bytes of the hex string; a
\* raised ValueError is the NullSlot the caller turns it into
decode_modbus_response(response, register_count, data_format) ==
    LET length_hex == Slice(response, 5, 6)
    IN  IF length_hex = <<>>
        THEN NullSlot
        ELSE LET rtu_payload == Slice(response, 7, 6 + BigEndian(length_hex))
             IN  IF Len(rtu_payload) < 5
                 THEN NullSlot
                 ELSE decode_values(Slice(rtu_payload, 6, 5 + rtu_payload[5]),
                                    register_count, data_format)

\* ------------------------------------------------- get_all_data, decoding
\* address a is one of the registers group g reads
InGroup(a, g) == g[1] <= a /\ a < g[1] + g[2]

\* lines 55-65 of _read_registers_bulk: slot i is decoded from the i-th
\* response if there is one and it is not empty; a decode that raises
\* leaves None
decode_groups(bulk_responses, register_groups, data_format) ==
    [i \in 1..Len(register_groups) |->
        IF i <= Len(bulk_responses) /\ bulk_responses[i] # <<>>
        THEN decode_modbus_response(bulk_responses[i], register_groups[i][2], data_format)
        ELSE NullSlot]

\* the scale factors of the two register maps, as the number the register
\* word is divided by (0.1 is 10, 0.01 is 100), name by name
SCALE_11K ==
    <<1, 10, 10, 1, 1, 1, 1, 1, 10, 1, 10, 10, 1, 10, 10, 1, 10, 10, 1, 1, 10,
      10, 1, 1, 1, 1, 1, 1, 1, 1, 1, 1, 100, 100>>

SCALE_6K ==
    <<1, 10, 10, 1, 1, 1, 1, 1, 10, 1, 10, 10, 1, 1, 1, 1, 10, 1, 1, 1, 10, 10,
      1, 1, 100, 1, 1, 1, 1, 1, 1, 1, 1, 1>>

\* ModelConfig.process_value: the word times the scale factor of the name
process_value(scale, n, value) == [raw |-> value, per |-> scale[n]]

\* values.get(name) when the name is absent
NoValue == [raw |-> 0, per |-> 0]

\* lines 85-99 of get_all_data: the names that get a value, by position in
\* the register map
valued_names(map, register_groups, results) ==
    {n \in DOMAIN map :
        \E i \in DOMAIN register_groups :
            /\ results[i].ok
            /\ InGroup(map[n], register_groups[i])
            /\ map[n] - register_groups[i][1] < Len(results[i].values)}

\* the values dictionary of get_all_data
decoded_values(map, scale, register_groups, results) ==
    [name \in {RegisterNames[n] : n \in valued_names(map, register_groups, results)} |->
        LET n == CHOOSE k \in DOMAIN map : RegisterNames[k] = name
            i == CHOOSE j \in DOMAIN register_groups :
                    /\ results[j].ok
                    /\ InGroup(map[n], register_groups[j])
                    /\ map[n] - register_groups[j][1] < Len(results[j].values)
        IN  process_value(scale, n, results[i].values[map[n] - register_groups[i][1] + 1])]

get(values, name) == IF name \in DOMAIN values THEN values[name] ELSE NoValue

\* the fields of the dataclasses of isolar.py, which async_isolar.py imports
DataClasses ==
    [battery |-> {"voltage", "current", "power", "soc", "temperature"},
     pv |-> {"total_power", "charging_power", "charging_current", "temperature",
             "pv1_voltage", "pv1_current", "pv1_power", "pv2_voltage", "pv2_current",
             "pv2_power"},
     grid |-> {"voltage", "power", "frequency"},
     output |-> {"voltage", "current", "power", "apparent_power", "load_percentage",
                 "frequency"},
     system |-> {"operating_mode", "mode_name"}]

\* the members of isolar.OperatingMode by value
OperatingMode ==
    [n \in 0..7 |->
        <<"STANDBY", "GRID", "BATTERY", "FAULT", "HYBRID", "CHARGING", "BYPASS", "UPS">>[n + 1]]

\* the call of a dataclass with keyword arguments inside the try of a
\* _create_* method: the object, or, when the keywords are not the fields
\* of the class, the TypeError that the method turns into None
DataObject(cls, kwargs) ==
    IF DOMAIN kwargs = DataClasses[cls]
    THEN [present |-> TRUE, fields |-> kwargs]
    ELSE [present |-> FALSE, fields |-> [f \in DOMAIN kwargs |-> NoValue]]

\* the keyword arguments values.get builds, field by field
Arguments(values, fields) == [f \in DOMAIN fields |-> get(values, fields[f])]

\* the None a _create_* method returns
NoData(fields) == [present |-> FALSE, fields |-> [f \in DOMAIN fields |-> NoValue]]

BatteryFields ==
    [voltage |-> "battery_voltage", current |-> "battery_current",
     power |-> "battery_power", soc |-> "battery_soc",
     temperature |-> "battery_temperature"]

PVFields ==
    [total_power |-> "pv_total_power", charging_power |-> "pv_charging_power",
     charging_current |-> "pv_charging_current", temperature |-> "pv_temperature",
     pv1_voltage |-> "pv1_voltage", pv1_current |-> "pv1_current",
     pv1_power |-> "pv1_power", pv2_voltage |-> "pv2_voltage",
     pv2_current |-> "pv2_current", pv2_power |-> "pv2_power",
     pv_generated_today |-> "pv_energy_today", pv_generated_total |-> "pv_energy_total"]

GridFields ==
    [voltage |-> "grid_voltage", power |-> "grid_power", frequency |-> "grid_frequency"]

OutputFields ==
    [voltage |-> "output_voltage", current |-> "output_current",
     power |-> "output_power", apparent_power |-> "output_apparent_power",
     load_percentage |-> "output_load_percentage", frequency |-> "output_frequency"]

SystemFields == [operating_mode |-> "operation_mode", mode_name |-> "operation_mode"]

create_battery_data(values) ==
    IF \A f \in DOMAIN BatteryFields : BatteryFields[f] \in DOMAIN values
    THEN DataObject("battery", Arguments(values, BatteryFields))
    ELSE NoData(BatteryFields)

create_pv_data(values) ==
    IF \E name \in {"pv_total_power", "pv1_voltage", "pv2_voltage"} : name \in DOMAIN values
    THEN DataObject("pv", Arguments(values, PVFields))
    ELSE NoData(PVFields)

create_grid_data(values) ==
    IF \E name \in {"grid_voltage", "grid_power", "grid_frequency"} : name \in DOMAIN values
    THEN DataObject("grid", Arguments(values, GridFields))
    ELSE NoData(GridFields)

create_output_data(values) ==
    IF \E name \in {"output_voltage", "output_power"} : name \in DOMAIN values
    THEN DataObject("output", Arguments(values, OutputFields))
    ELSE NoData(OutputFields)

\* _create_system_status: the timestamp of the six time registers if they
\* are there and make a date, the member of OperatingMode or FAULT with the
\* name "UNKNOWN (<value>)", and the call of SystemStatus with the three
\* keywords
create_system_status(values) ==
    LET t(i) == values[RegisterNames[26 + i]].raw
        days(y, m) ==
            IF m \in {4, 6, 9, 11} THEN 30
            ELSE IF m # 2 THEN 31
            ELSE IF y % 4 = 0 /\ (y % 100 # 0 \/ y % 400 = 0) THEN 29 ELSE 28
        inverter_timestamp ==
            IF /\ \A i \in 1..6 : RegisterNames[26 + i] \in DOMAIN values
               /\ t(1) \in 1..9999 /\ t(2) \in 1..12 /\ t(3) \in 1..days(t(1), t(2))
               /\ t(4) \in 0..23 /\ t(5) \in 0..59 /\ t(6) \in 0..59
            THEN [i \in 1..6 |-> t(i)]
            ELSE <<>>
        mode_value == values["operation_mode"].raw
        kwargs ==
            IF mode_value \in DOMAIN OperatingMode
            THEN [operating_mode |-> OperatingMode[mode_value],
                  mode_name |-> OperatingMode[mode_value],
                  inverter_time |-> inverter_timestamp]
            ELSE [operating_mode |-> "FAULT",
                  mode_name |-> <<"UNKNOWN (", mode_value, ".0)">>,
                  inverter_time |-> inverter_timestamp]
    IN  IF "operation_mode" \in DOMAIN values
        THEN DataObject("system", kwargs)
        ELSE NoData(SystemFields)

\* lines 101-108 of get_all_data: the five records it returns
create_data(values) ==
    [battery |-> create_battery_data(values), pv |-> create_pv_data(values),
     grid |-> create_grid_data(values), output |-> create_output_data(values),
     system |-> create_system_status(values)]

\* the keys of the records of a get_all_data() result that are not None
present_keys(records) == {k \in Keys : records[k].present}

\* ------------------------------------------------------- the inverter
\* the word the inverter holds in register a
InverterRegister(a) == a

\* the data bytes of a read of count registers from start, high byte first
register_data(start, count) ==
    [b \in 1..(2 * count) |->
        IF b % 2 = 1
        THEN InverterRegister(start + ((b - 1) \div 2)) \div 256
        ELSE InverterRegister(start + ((b - 1) \div 2)) % 256]

\* the length-counted region of the response to a read: prefix, unit,
\* function, byte count, data and the CRC, low byte first
response_rtu(start, count) ==
    LET body == <<255, 4, 0, 3, 2 * count>> \o register_data(start, count)
        crc == crc16_modbus(body)
    IN  body \o <<crc % 256, crc \div 256>>

\* transaction id, protocol id 1 and length in front of a region
mbap(tx, region) ==
    <<tx \div 256, tx % 256, 0, 1, Len(region) \div 256, Len(region) % 256>> \o region

\* what can come back for one request: the response, the response with a
\* CRC that does not match, the error indication, the response cut short by
\* the end of the stream, and nothing at all
ResponseKinds == {"good", "bad_crc", "error", "short", "empty"}

response_frame(tx, region, kind) ==
    LET frame == mbap(tx, region)
    IN  CASE kind = "good" -> frame
          [] kind = "bad_crc" ->
                [frame EXCEPT ![Len(frame)] = (frame[Len(frame)] + 1) % 256]
          [] kind = "error" -> <<tx \div 256, tx % 256, 0, 1, 0, 2, 255, 4>>
          [] kind = "short" -> SubSeq(frame, 1, Len(frame) - 3)
          [] kind = "empty" -> <<>>

\* the CRC at the end of the length-counted region of a frame matches
crc_matches(frame) ==
    /\ Len(frame) >= 8
    /\ Len(frame) = 6 + BigEndian(SubSeq(frame, 5, 6))
    /\ crc16_modbus(SubSeq(frame, 7, Len(frame) - 2))
         = frame[Len(frame) - 1] + 256 * frame[Len(frame)]

\* ------------------------------------------- get_all_data on what came back
MODEL_SCALES == [ISOLAR_SMG_II_11K |-> SCALE_11K, ISOLAR_SMG_II_6K |-> SCALE_6K]

\* what the inverter can send back to request i of a first poll of model m,
\* kind by kind
FrameTable ==
    [m \in Models |->
        [i \in DOMAIN MODEL_GROUPS[m] |->
            [kind \in ResponseKinds |->
                response_frame(first_transaction_id + i - 1,
                               response_rtu(MODEL_GROUPS[m][i][1], MODEL_GROUPS[m][i][2]),
                               kind)]]]

\* the lists of kinds of the responses one session collects: a read that
\* fails ends the list early
KindLists(n) ==
    {kinds \in UNION {[1..l -> ResponseKinds] : l \in 0..n} :
        Cardinality({i \in DOMAIN kinds : kinds[i] # "good"}) <= MaxFaults}

\* the lists send_bulk() can return to a first poll of model m when one
\* connection is served
ResponseLists ==
    [m \in Models |->
        {[i \in DOMAIN kinds |-> FrameTable[m][i][kinds[i]]] :
            kinds \in KindLists(Len(MODEL_GROUPS[m]))}]

\* _read_registers_bulk from the return of send_bulk() on
read_registers_bulk(bulk_responses, register_groups, data_format) ==
    decode_groups(bulk_responses, register_groups, data_format)

\* lines 81-108 of get_all_data: the records built from the slots
get_all_data_records(register_groups, results) ==
    IF results = <<>>
    THEN create_data(<<>>)
    ELSE create_data(decoded_values(register_map, MODEL_SCALES[model],
                                    register_groups, results))

\* get_all_data from the return of send_bulk() on: the decoding of
\* _read_registers_bulk and lines 81-108
get_all_data_returns ==
    /\ stage = "received"
    /\ decoded_groups' = read_registers_bulk(responses, groups, "Int")
    /\ all_data' = get_all_data_records(groups, decoded_groups')
    /\ stage' = "returned"
    /\ UNCHANGED <<coordinator, grouping, model, responses, session>>
    /\ UNCHANGED beside_session

\* _do_update from the return of get_all_data() on: the records are stored
\* and the counter reset, or the counter is advanced
do_update_returned ==
    /\ stage = "returned"
    /\ IF present_keys(all_data) # {}
       THEN /\ data' = Snapshot(calls, present_keys(all_data))
            /\ stored_by' = calls
            /\ consecutive_failures' = 0
            /\ stage' = "stored"
       ELSE /\ consecutive_failures' = consecutive_failures + 1
            /\ stage' = "failed"
            /\ UNCHANGED <<data, stored_by>>
    /\ UNCHANGED <<ticked, is_updating, last_update_start, sensors, last_notified,
                   lock, lock_waiters, runs, udp_open, server, active_connections,
                   grouping, model, responses, decoded_groups, all_data, session>>
    /\ UNCHANGED beside_session

\* update_model that sets the model name and leaves model_config alone
update_model_name_only(m) ==
    /\ stage # "returned"
    /\ model' = m
    /\ UNCHANGED <<coordinator, grouping, responses, decoded_groups, all_data, stage,
                   session, beside_session>>

\* AsyncISolar.update_model(m) with a known model, called by the options
\* flow between two polls or while the poll is suspended in send_bulk
update_model(m) ==
    /\ stage # "returned"
    /\ model' = m
    /\ register_map' = MODEL_CONFIGS[m]
    /\ UNCHANGED <<coordinator, groups, first_groups, calls, responses, decoded_groups,
                   all_data, stage, session, beside_session>>

\* lines 75-80 of a later get_all_data(): the register groups of the active
\* model are built and asked for; send_bulk() brings every response or an
\* empty list, and the locals of the poll before are gone
get_all_data_called ==
    /\ stage \in {"stored", "failed"}
    /\ calls < MaxCalls
    /\ groups' = create_register_groups(register_map)
    /\ calls' = calls + 1
    /\ responses' \in {<<>>, [i \in DOMAIN groups' |-> FrameTable[model][i]["good"]]}
    /\ decoded_groups' = <<>>
    /\ all_data' = [k \in Keys |-> [present |-> FALSE]]
    /\ stage' = "received"
    /\ UNCHANGED <<coordinator, register_map, first_groups, model, session, beside_session>>

\* a first poll of either model that is suspended in send_bulk(), which is
\* going to return any of the response lists
DecodeInit ==
    /\ InitCoordinator
    /\ model \in Models
    /\ register_map = MODEL_CONFIGS[model]
    /\ groups = create_register_groups(register_map)
    /\ first_groups = groups
    /\ calls = 1
    /\ responses \in ResponseLists[model]
    /\ decoded_groups = <<>>
    /\ all_data = [k \in Keys |-> [present |-> FALSE]]
    /\ stage = "received"
    /\ InitSession
    /\ InitAside

DecodeNext ==
    \/ get_all_data_returns
    \/ do_update_returned
    \/ \E m \in Models : update_model(m)
    \/ get_all_data_called

DecodeSpec == DecodeInit /\ [][DecodeNext]_vars

\* ------------------------------------------------------- request frames
\* create_request that writes the start address low byte first
create_request_little_endian(tid, protocol_id, unit_id, function_code, register_address, register_offset) ==
    LET rtu_packet == <<unit_id, function_code,
                        register_address % 256, (register_address \div 256) % 256,
                        (register_offset \div 256) % 256, register_offset % 256>>
        crc == crc16_modbus(rtu_packet)
        prefixed == <<255, 4>> \o rtu_packet \o <<crc % 256, (crc \div 256) % 256>>
        length == Len(prefixed)
    IN  <<(tid \div 256) % 256, tid % 256,
          (protocol_id \div 256) % 256, protocol_id % 256,
          (length \div 256) % 256, length % 256>> \o prefixed

\* create_request that appends the CRC high byte first
create_request_crc_high_first(tid, protocol_id, unit_id, function_code, register_address, register_offset) ==
    LET rtu_packet == <<unit_id, function_code,
                        (register_address \div 256) % 256, register_address % 256,
                        (register_offset \div 256) % 256, register_offset % 256>>
        crc == crc16_modbus(rtu_packet)
        prefixed == <<255, 4>> \o rtu_packet \o <<(crc \div 256) % 256, crc % 256>>
        length == Len(prefixed)
    IN  <<(tid \div 256) % 256, tid % 256,
          (protocol_id \div 256) % 256, protocol_id % 256,
          (length \div 256) % 256, length % 256>> \o prefixed

\* create_request: the frame that asks for register_offset registers from
\* register_address on
create_request(tid, protocol_id, unit_id, function_code, register_address, register_offset) ==
    LET rtu_packet == <<unit_id, function_code,
                        (register_address \div 256) % 256, register_address % 256,
                        (register_offset \div 256) % 256, register_offset % 256>>
        crc == crc16_modbus(rtu_packet)
        prefixed == <<255, 4>> \o rtu_packet \o <<crc % 256, (crc \div 256) % 256>>
        length == Len(prefixed)
    IN  <<(tid \div 256) % 256, tid % 256,
          (protocol_id \div 256) % 256, protocol_id % 256,
          (length \div 256) % 256, length % 256>> \o prefixed

\* what the inverter reads in a request frame
request_tx(request) == (256 * request[1]) + request[2]
request_start(request) == (256 * request[11]) + request[12]
request_count(request) == (256 * request[13]) + request[14]

\* _get_next_transaction_id without the mask
get_next_transaction_id_unmasked(id) == [current_id |-> id, next |-> id + 1]

\* _get_next_transaction_id: the id handed out and the counter left behind
get_next_transaction_id(id) == [current_id |-> id, next |-> (id + 1) % 65536]

\* lines 42-45 of _read_registers_bulk: one request per group, each with the
\* next transaction id
RECURSIVE create_requests(_, _, _)
create_requests(id, register_groups, k) ==
    IF id >= 0 /\ k <= Len(register_groups)
    THEN <<create_request(get_next_transaction_id(id).current_id, 1, 0, 3,
                          register_groups[k][1], register_groups[k][2])>>
            \o create_requests(get_next_transaction_id(id).next, register_groups, k + 1)
    ELSE <<>>

\* the counter after n requests
RECURSIVE id_after(_, _)
id_after(id, n) ==
    IF id >= 0 /\ n > 0 THEN id_after(get_next_transaction_id(id).next, n - 1) ELSE id

\* the length-counted regions of the responses to the groups that are read
RegionTable == [g \in ReadGroups |-> response_rtu(g[1], g[2])]

\* what the inverter sends back to a request
inverter_response(request, kind) ==
    response_frame(request_tx(request),
                   RegionTable[<<request_start(request), request_count(request)>>], kind)

\* ------------------------------------------------- the codec on its own
\* modbusclient.get_registers_from_request: the addresses a request asks for
get_registers_from_request(request) ==
    LET rtu_payload == Slice(request, 7, Len(request))
        register_address == BigEndian(Slice(rtu_payload, 5, 6))
        register_count == BigEndian(Slice(rtu_payload, 7, 8))
    IN  [i \in 1..register_count |-> register_address + i - 1]

\* the response of the inverter to a read of registers that hold the words:
\* header, prefix, unit, function, byte count, the words high byte first
\* and the CRC
response_of_words(tx, words) ==
    LET body == <<255, 4, 0, 3, 2 * Len(words)>>
                    \o [b \in 1..(2 * Len(words)) |->
                            IF b % 2 = 1
                            THEN words[(b + 1) \div 2] \div 256
                            ELSE words[(b + 1) \div 2] % 256]
        crc == crc_loop(body, 1, 65535)
    IN  mbap(tx, body \o <<crc % 256, crc \div 256>>)

\* create_request(tx, 0x0001, 0x00, 0x03, start, count), as
\* _read_registers_bulk calls it
call_create_request ==
    /\ codec.pc = "args"
    /\ codec' = [codec EXCEPT
                    !.pc = "built",
                    !.request = create_request(codec.tx, 1, 0, 3, codec.start, codec.count)]
    /\ UNCHANGED <<coordinator, grouping, decoding, session, kicking, teardown>>

\* get_registers_from_request on the request that was built
call_get_registers_from_request ==
    /\ codec.pc = "built"
    /\ codec' = [codec EXCEPT
                    !.pc = "parsed",
                    !.registers = get_registers_from_request(codec.request)]
    /\ UNCHANGED <<coordinator, grouping, decoding, session, kicking, teardown>>

\* decode_modbus_response on the response, for as many registers as it
\* carries
call_decode_modbus_response ==
    /\ codec.pc = "parsed"
    /\ codec' = [codec EXCEPT
                    !.pc = "decoded",
                    !.decoded = decode_modbus_response(codec.response, Len(codec.words),
                                                       codec.data_format)]
    /\ UNCHANGED <<coordinator, grouping, decoding, session, kicking, teardown>>

\* the arguments of one create_request call and one response, drawn from
\* the ends and the middle of their ranges
CodecInit ==
    /\ InitCoordinator
    /\ consecutive_failures = 0
    /\ InitGrouping
    /\ InitDecoding
    /\ InitSession
    /\ InitKicking
    /\ InitTeardown
    /\ \E tx \in {0, first_transaction_id, 65535}, start \in {0, 201, 703, 65535},
          count \in {1, 2, 124, 125}, data_format \in {"Int", "UnsignedInt"},
          words \in UNION {[1..n -> {0, 1, 32767, 32768, 65526, 65535}] : n \in 1..MaxWords} :
            codec = [pc |-> "args", tx |-> tx, start |-> start, count |-> count,
                     request |-> <<>>, registers |-> <<>>, words |-> words,
                     data_format |-> data_format,
                     response |-> response_of_words(tx, words), decoded |-> <<>>]

CodecNext ==
    \/ call_create_request
    \/ call_get_registers_from_request
    \/ call_decode_modbus_response

CodecSpec == CodecInit /\ [][CodecNext]_vars

\* ------------------------------------------------------------ send_bulk
\* the models whose polls are followed through send_bulk
SessionModels == {"ISOLAR_SMG_II_6K"}

\* the longest list of commands of a session
MaxCommands == Len(MODEL_GROUPS["ISOLAR_SMG_II_6K"])

\* values of _transaction_id left by the requests before the first call
\* that is followed
InitTransactionIds == {65535}

\* how one exchange of handle_bulk_client can end: a response of a kind, or
\* no response within the read timeout
ExchangeKinds == {"good", "timeout"}

\* the variables of the poll coordinator that send_bulk does not touch
poll_side == <<ticked, is_updating, last_update_start, consecutive_failures, data,
               stored_by, sensors, last_notified, lock, lock_waiters, runs>>

\* caller 1 is the poll (get_all_data), the others are register_scan calls
IsPoll(c) == c = 1

SetSender(c, f) == [senders EXCEPT ![c] = f]

\* the send_bulk calls that are waiting on response_future
Listening == {c \in Callers : senders[c].pc = "listen"}

\* the hex_commands the handlers of the current server were given
Commands == senders[CHOOSE c \in Listening : TRUE].requests

\* _cleanup_server and the end of an attempt: the connections are closed,
\* the server is closed, the responses list and the future of the attempt
\* are dropped
close_server ==
    /\ listeners' = IF server THEN listeners - 1 ELSE listeners
    /\ server' = FALSE
    /\ conns' = EmptyBag
    /\ accepted' = 0
    /\ active_connections' = 0
    /\ bulk' = <<>>
    /\ response_future' = "none"

\* send_bulk returns the list resp to caller c: the lock is released; the
\* poll goes on, without a pause, to decode the responses and to build the
\* records get_all_data returns
send_bulk_returns(c, resp) ==
    /\ client_lock' = IF client_lock = c THEN 0 ELSE client_lock
    /\ udp_open' = FALSE
    /\ IF IsPoll(c)
       THEN /\ responses' = [i \in DOMAIN resp |->
                                inverter_response(senders[c].requests[resp[i].req],
                                                  resp[i].kind)]
            /\ origin' = resp
            /\ decoded_groups' =
                  read_registers_bulk(responses', senders[c].register_groups, "Int")
            /\ all_data' =
                  get_all_data_records(senders[c].register_groups, decoded_groups')
            /\ stage' = "returned"
       ELSE UNCHANGED <<responses, origin, decoded_groups, all_data, stage>>
    /\ senders' = SetSender(c, IdleSender)

\* the next round of the for loop of send_bulk: sleep(1), then the first
\* kick of the next send_udp_discovery
send_bulk_retries(c) ==
    /\ senders' = SetSender(c, [senders[c] EXCEPT
                                  !.pc = "discover", !.attempt = @ + 1, !.kick = 0])
    /\ udp_open' = TRUE
    /\ UNCHANGED <<client_lock, responses, origin, decoded_groups, all_data, stage>>

\* a for loop of send_bulk with one round more than retry_count
after_failed_attempt_late(c) ==
    IF senders[c].attempt = retry_count
    THEN send_bulk_returns(c, <<>>)
    ELSE send_bulk_retries(c)

\* lines 113-117 and 144-150: what follows an attempt that brought nothing
after_failed_attempt(c) ==
    IF senders[c].attempt = retry_count - 1
    THEN send_bulk_returns(c, <<>>)
    ELSE send_bulk_retries(c)

\* self._create_register_groups() of get_all_data; the groups of the maps of
\* models.py are computed once
register_groups_of_model ==
    IF register_map = MODEL_CONFIGS[model]
    THEN MODEL_GROUPS[model]
    ELSE create_register_groups(register_map)

\* get_all_data (the poll) or handle_register_scan calls
\* _read_registers_bulk: the requests are built and send_bulk queues for the
\* client lock
read_registers_bulk_call(c) ==
    /\ sessions < MaxSessions
    /\ senders[c].pc = "idle"
    /\ LET gs == IF IsPoll(c) THEN register_groups_of_model ELSE ScanGroups
       IN  /\ senders' = SetSender(c, [IdleSender EXCEPT
                                         !.pc = "lock",
                                         !.requests = create_requests(transaction_id, gs, 1),
                                         !.register_groups = gs])
           /\ transaction_id' = id_after(transaction_id, Len(gs))
           /\ IF IsPoll(c)
              THEN /\ groups' = gs
                   /\ first_groups' = IF calls = 0 THEN gs ELSE first_groups
                   /\ calls' = calls + 1
                   /\ stage' = "reading"
              ELSE UNCHANGED <<groups, first_groups, calls, stage>>
    /\ client_waiters' = Append(client_waiters, c)
    /\ sessions' = sessions + 1
    /\ UNCHANGED <<coordinator, register_map, model, responses, decoded_groups, all_data,
                   client_lock, listeners, conns, accepted, bulk, response_future,
                   origin>>
    /\ UNCHANGED beside_session

\* send_bulk that does not take the client lock
lock_ignored(c) == TRUE

\* async with self._lock: the lock is free and c has waited longest
lock_granted(c) ==
    client_lock = 0 /\ client_waiters # <<>> /\ Head(client_waiters) = c

\* lines 108-112 of send_bulk: the lock is taken, _cleanup_server runs and
\* the first kick of the first send_udp_discovery is sent
send_bulk_enter(c) ==
    /\ senders[c].pc = "lock"
    /\ lock_granted(c)
    /\ client_lock' = c
    /\ client_waiters' = SelectSeq(client_waiters, LAMBDA w : w # c)
    /\ close_server
    /\ udp_open' = TRUE
    /\ senders' = SetSender(c, [senders[c] EXCEPT !.pc = "discover"])
    /\ UNCHANGED <<poll_side, grouping, decoding, transaction_id, origin, sessions>>
    /\ UNCHANGED beside_session

\* the inverter acknowledges the kick: send_udp_discovery returns True and
\* start_server binds the listener
discovery_acked(c) ==
    /\ senders[c].pc = "discover"
    /\ udp_open' = FALSE
    /\ listeners' = listeners + 1
    /\ server' = TRUE
    /\ conns' = EmptyBag
    /\ accepted' = 0
    /\ bulk' = <<>>
    /\ response_future' = "pending"
    /\ senders' = SetSender(c, [senders[c] EXCEPT !.pc = "listen", !.acked = TRUE])
    /\ UNCHANGED <<poll_side, active_connections, grouping, decoding, transaction_id,
                   client_lock, client_waiters, origin, sessions>>
    /\ UNCHANGED beside_session

\* the kick is not acknowledged within the timeout: the next kick of this
\* send_udp_discovery, or, after the third, what follows a failed attempt
discovery_timed_out(c) ==
    /\ senders[c].pc = "discover"
    /\ IF senders[c].kick < discovery_attempts - 1
       THEN /\ senders' = SetSender(c, [senders[c] EXCEPT !.kick = @ + 1])
            /\ udp_open' = TRUE
            /\ UNCHANGED <<client_lock, responses, origin, decoded_groups, all_data,
                           stage>>
       ELSE after_failed_attempt(c)
    /\ UNCHANGED <<poll_side, server, active_connections, grouping, model,
                   transaction_id, client_waiters, listeners, conns, accepted, bulk,
                   response_future, sessions>>
    /\ UNCHANGED beside_session

\* the server accepts an inbound connection and starts handle_bulk_client
\* on it: the task is about to write the first command
accept_connection ==
    /\ server
    /\ Listening # {}
    /\ accepted < MaxConns
    /\ conns' = conns (+) SetToBag({1})
    /\ accepted' = accepted + 1
    /\ active_connections' = active_connections + 1
    /\ UNCHANGED <<poll_side, udp_open, server, grouping, decoding, transaction_id,
                   client_lock, client_waiters, senders, listeners, bulk,
                   response_future, origin, sessions>>
    /\ UNCHANGED beside_session

\* the position of a handle_bulk_client task that has left its for loop
Finishing == Len(Commands) + 1

\* one round of the for loop of a handle_bulk_client task that is at
\* command k: the command is written and what is read is appended, or the
\* read times out and the loop is left. What is read at the end of the
\* stream is empty, it is appended like a response, and so is every read
\* after it
handler_exchange(k, kind) ==
    /\ Listening # {}
    /\ BagIn(k, conns)
    /\ k < Finishing
    /\ (accepted = 1 /\ bulk # <<>> /\ bulk[Len(bulk)].kind = "empty") => kind # "good"
    /\ IF kind = "timeout"
       THEN /\ conns' = (conns (-) SetToBag({k})) (+) SetToBag({Finishing})
            /\ UNCHANGED bulk
       ELSE /\ bulk' = Append(bulk, [kind |-> kind, req |-> k])
            /\ conns' = (conns (-) SetToBag({k})) (+) SetToBag({k + 1})
    /\ UNCHANGED <<coordinator, grouping, decoding, transaction_id, client_lock,
                   client_waiters, senders, listeners, accepted, response_future, origin,
                   sessions>>
    /\ UNCHANGED beside_session

\* lines 184-205 of a handle_bulk_client task that has left its loop: the
\* future is resolved if it is not yet, the connection is closed
handler_finish ==
    /\ Listening # {}
    /\ BagIn(Finishing, conns)
    /\ response_future' =
          IF response_future = "pending"
          THEN (IF Len(bulk) = Len(Commands) THEN "true" ELSE "false")
          ELSE response_future
    /\ conns' = conns (-) SetToBag({Finishing})
    /\ active_connections' = active_connections - 1
    /\ UNCHANGED <<poll_side, udp_open, server, grouping, decoding, transaction_id,
                   client_lock, client_waiters, senders, listeners, accepted, bulk,
                   origin, sessions>>
    /\ UNCHANGED beside_session

\* wait_for(response_future, 10) times out: _cleanup_server, and what
\* follows a failed attempt
wait_timed_out(c) ==
    /\ senders[c].pc = "listen"
    /\ response_future = "pending"
    /\ close_server
    /\ after_failed_attempt(c)
    /\ UNCHANGED <<poll_side, grouping, model, transaction_id, client_waiters, sessions>>
    /\ UNCHANGED beside_session

\* response_future is resolved: _cleanup_server, then the responses are
\* returned if there are any
wait_done(c) ==
    /\ senders[c].pc = "listen"
    /\ response_future \in {"true", "false"}
    /\ close_server
    /\ IF bulk # <<>> THEN send_bulk_returns(c, bulk) ELSE after_failed_attempt(c)
    /\ UNCHANGED <<poll_side, grouping, model, transaction_id, client_waiters, sessions>>
    /\ UNCHANGED beside_session

\* the poll is cancelled (by the update timeout of the coordinator) while
\* it is inside send_bulk
cancel_poll ==
    /\ senders[1].pc \in {"lock", "discover", "listen"}
    /\ client_waiters' = SelectSeq(client_waiters, LAMBDA w : w # 1)
    /\ client_lock' = IF client_lock = 1 THEN 0 ELSE client_lock
    /\ IF senders[1].pc = "listen"
       THEN close_server /\ UNCHANGED udp_open
       ELSE /\ udp_open' = IF senders[1].pc = "discover" THEN FALSE ELSE udp_open
            /\ UNCHANGED <<listeners, server, conns, accepted, active_connections,
                           bulk, response_future>>
    /\ senders' = SetSender(1, IdleSender)
    /\ stage' = "cancelled"
    /\ UNCHANGED <<poll_side, grouping, model, responses, decoded_groups, all_data,
                   transaction_id, origin, sessions>>
    /\ UNCHANGED beside_session

\* an AsyncISolar that has sent requests before, no call under way
SessionInit ==
    /\ InitCoordinator
    /\ consecutive_failures = 0
    /\ model \in SessionModels
    /\ register_map = MODEL_CONFIGS[model]
    /\ groups = <<>>
    /\ first_groups = <<>>
    /\ calls = 0
    /\ responses = <<>>
    /\ decoded_groups = <<>>
    /\ all_data = [k \in Keys |-> [present |-> FALSE]]
    /\ stage = "idle"
    /\ transaction_id \in InitTransactionIds
    /\ client_lock = 0
    /\ client_waiters = <<>>
    /\ senders = [c \in Callers |-> IdleSender]
    /\ listeners = 0
    /\ conns = EmptyBag
    /\ accepted = 0
    /\ bulk = <<>>
    /\ response_future = "none"
    /\ origin = <<>>
    /\ sessions = 0
    /\ InitAside

SessionNext ==
    \/ \E c \in Callers : read_registers_bulk_call(c)
    \/ \E c \in Callers : send_bulk_enter(c)
    \/ \E c \in Callers : discovery_acked(c)
    \/ \E c \in Callers : discovery_timed_out(c)
    \/ accept_connection
    \/ \E k \in 1..MaxCommands, kind \in ExchangeKinds : handler_exchange(k, kind)
    \/ handler_finish
    \/ \E c \in Callers : wait_timed_out(c)
    \/ \E c \in Callers : wait_done(c)
    \/ cancel_poll

SessionSpec == SessionInit /\ [][SessionNext]_vars

\* every await of send_bulk ends: the lock is handed over in the order of
\* arrival, a kick is acknowledged or its wait_for times out, and
\* wait_for(response_future, 10) ends with the future or after 10 s. The
\* last is what weak fairness of wait_timed_out(c) \/ wait_done(c) gives:
\* one of the two is enabled exactly while c is at "listen", and both
\* leave it
SendBulkProgress(c) ==
    /\ WF_vars(send_bulk_enter(c))
    /\ WF_vars(discovery_acked(c) \/ discovery_timed_out(c))
    /\ []<>(senders[c].pc # "listen")

FairSessionSpec == SessionSpec /\ \A c \in Callers : SendBulkProgress(c)

\* ------------------------------------- connections the cleanup misses
\* the server accepts an inbound connection: its transport is made and the
\* handle_bulk_client task is created with the commands of the attempt; the
\* task has not run yet, so that the writer is not in _active_connections
connection_accepted ==
    /\ server
    /\ accepted < MaxConns
    /\ \E c \in Listening :
          unserved' = unserved (+) SetToBag({[caller |-> c, attempt |-> senders[c].attempt,
                                              requests |-> senders[c].requests]})
    /\ accepted' = accepted + 1
    /\ UNCHANGED <<coordinator, grouping, decoding, transaction_id, client_lock,
                   client_waiters, senders, listeners, conns, bulk, response_future,
                   origin, sessions, framing, kicking, strays>>

\* the attempt whose server accepted connection u is still waiting for its
\* future
Awaited(u) ==
    /\ senders[u.caller].pc = "listen"
    /\ senders[u.caller].attempt = u.attempt
    /\ senders[u.caller].requests = u.requests

\* lines 155-158 of handle_bulk_client: the task of connection u runs and
\* tracks its writer. If its attempt is over, _cleanup_server has run
\* without this writer and nothing stops the task: it goes on to line 167
\* and writes its first command
handler_started(u) ==
    /\ BagIn(u, unserved)
    /\ unserved' = unserved (-) SetToBag({u})
    /\ active_connections' = active_connections + 1
    /\ IF Awaited(u)
       THEN /\ conns' = conns (+) SetToBag({1})
            /\ UNCHANGED strays
       ELSE /\ strays' = strays (+) SetToBag({[caller |-> u.caller, at |-> 1,
                                                requests |-> u.requests]})
            /\ UNCHANGED conns
    /\ UNCHANGED <<poll_side, udp_open, server, grouping, decoding, transaction_id,
                   client_lock, client_waiters, senders, listeners, accepted, bulk,
                   response_future, origin, sessions, framing, kicking>>

\* lines 170-186 of a task whose attempt is over, at command s.at: what it
\* reads goes to the responses list of that attempt, which nobody reads;
\* then the next command is written, or the loop is left
stray_exchange(s, kind) ==
    /\ BagIn(s, strays)
    /\ s.at <= Len(s.requests)
    /\ strays' = (strays (-) SetToBag({s}))
                     (+) SetToBag({[s EXCEPT !.at = IF kind = "timeout"
                                                   THEN Len(s.requests) + 1
                                                   ELSE s.at + 1]})
    /\ UNCHANGED <<coordinator, grouping, decoding, session, framing, kicking, unserved>>

\* lines 188-215 of a task whose attempt is over: the future of that attempt
\* is resolved if it is not yet, the writer is untracked and closed
stray_finished(s) ==
    /\ BagIn(s, strays)
    /\ s.at = Len(s.requests) + 1
    /\ strays' = strays (-) SetToBag({s})
    /\ active_connections' = IF active_connections > 0 THEN active_connections - 1 ELSE 0
    /\ UNCHANGED <<poll_side, udp_open, server, grouping, decoding, session, framing,
                   kicking, unserved>>

\* ------------------------------------------- one attempt of send_bulk
\* the first poll of an AsyncISolar is inside send_bulk: its kick has been
\* acknowledged and the server listens
ExchangeInit ==
    /\ ticked = FALSE
    /\ is_updating = FALSE
    /\ last_update_start = None
    /\ consecutive_failures = 0
    /\ data = [k \in Keys |-> None]
    /\ stored_by = 0
    /\ sensors = [k \in Keys |-> [state |-> None, available |-> TRUE]]
    /\ last_notified = 0
    /\ lock = 0
    /\ lock_waiters = <<>>
    /\ runs = <<>>
    /\ udp_open = FALSE
    /\ server = TRUE
    /\ active_connections = 0
    /\ model \in SessionModels
    /\ register_map = MODEL_CONFIGS[model]
    /\ groups = MODEL_GROUPS[model]
    /\ first_groups = groups
    /\ calls = 1
    /\ responses = <<>>
    /\ decoded_groups = <<>>
    /\ all_data = [k \in Keys |-> [present |-> FALSE]]
    /\ stage = "reading"
    /\ \E first \in InitTransactionIds :
          /\ transaction_id = id_after(first, Len(groups))
          /\ senders = [c \in Callers |->
                          IF IsPoll(c)
                          THEN [IdleSender EXCEPT
                                  !.pc = "listen", !.acked = TRUE,
                                  !.requests = create_requests(first, groups, 1),
                                  !.register_groups = groups]
                          ELSE IdleSender]
    /\ client_lock = 1
    /\ client_waiters = <<>>
    /\ listeners = 1
    /\ conns = EmptyBag
    /\ accepted = 0
    /\ bulk = <<>>
    /\ response_future = "pending"
    /\ origin = <<>>
    /\ sessions = 1
    /\ InitAside

\* the attempt and what it leaves behind: connections are accepted and
\* served; a read brings a response, the end of the stream or nothing in
\* time; the wait ends or the poll is cancelled
ExchangeNext ==
    \/ connection_accepted
    \/ \E u \in BagToSet(unserved) : handler_started(u)
    \/ \E k \in 1..MaxCommands, kind \in {"good", "empty", "timeout"} :
          handler_exchange(k, kind)
    \/ handler_finish
    \/ wait_timed_out(1)
    \/ wait_done(1)
    \/ cancel_poll
    \/ \E s \in BagToSet(strays), kind \in {"good", "empty", "timeout"} :
          stray_exchange(s, kind)
    \/ \E s \in BagToSet(strays) : stray_finished(s)

ExchangeSpec == ExchangeInit /\ [][ExchangeNext]_vars

\* ------------------------------------------------- send_udp_discovery
\* AsyncModbusClient._base_timeout
base_timeout == 5

\* the 30 of line 76
longest_udp_timeout == 30

Min(a, b) == IF a <= b THEN a ELSE b

\* line 76 without the cap
udp_timeout_uncapped(failures) == base_timeout * (1 + failures)

\* line 76: the timeout of every wait of one send_udp_discovery call
udp_timeout(failures) == Min(longest_udp_timeout, base_timeout * (1 + failures))

\* what resolves, or fails to resolve, response_received within the
\* timeout: datagram_received, error_received, or nothing
KickOutcomes == {"datagram", "error", "timeout"}

\* send_udp_discovery() is called (by send_bulk, under the client lock): the
\* timeout is computed and the for loop is entered
discovery_called ==
    /\ discovery.pc = "idle"
    /\ discovery.failures < MaxUdpFailures
    /\ discovery' = [discovery EXCEPT
                        !.pc = "attempt", !.attempt = 0, !.kicks = 0, !.got = "none",
                        !.timeout = udp_timeout(discovery.failures),
                        !.result = "none", !.last = discovery.result]
    /\ UNCHANGED <<coordinator, grouping, decoding, session, framing, teardown>>

\* lines 102-104, after the last round of the loop
discovery_gives_up(d) ==
    [d EXCEPT !.pc = "idle", !.failures = @ + 1, !.result = "false"]

\* the loop goes to its next round, or is left after the third
discovery_next_round(d) ==
    IF d.attempt < discovery_attempts - 1
    THEN [d EXCEPT !.pc = "attempt", !.attempt = @ + 1]
    ELSE discovery_gives_up(d)

\* lines 82-85: the endpoint is made and connection_made sends the kick
discovery_kick ==
    /\ discovery.pc = "attempt"
    /\ discovery' = [discovery EXCEPT !.pc = "waiting", !.kicks = @ + 1, !.got = "none"]
    /\ UNCHANGED <<coordinator, grouping, decoding, session, framing, teardown>>

\* lines 82-85 raise (no endpoint, no kick): line 99-100, and the next round
\* without a pause
discovery_raised ==
    /\ discovery.pc = "attempt"
    /\ discovery' = discovery_next_round([discovery EXCEPT !.got = "none"])
    /\ UNCHANGED <<coordinator, grouping, decoding, session, framing, teardown>>

\* the wait of lines 88-96 that takes any event for an acknowledgement
discovery_waited_any_event(outcome) ==
    /\ discovery.pc = "waiting"
    /\ discovery' =
          IF outcome # "timeout"
          THEN [discovery EXCEPT !.pc = "idle", !.got = outcome, !.failures = 0,
                                 !.result = "true"]
          ELSE [discovery EXCEPT !.pc = "pause", !.got = outcome]
    /\ UNCHANGED <<coordinator, grouping, decoding, session, framing, teardown>>

\* lines 88-96: the wait ends. A datagram makes the result True: the failure
\* counter is reset and the call returns True. After error_received (result
\* False) or the timeout the endpoint is closed and sleep(1) starts
discovery_waited(outcome) ==
    /\ discovery.pc = "waiting"
    /\ discovery' =
          IF outcome = "datagram"
          THEN [discovery EXCEPT !.pc = "idle", !.got = outcome, !.failures = 0,
                                 !.result = "true"]
          ELSE [discovery EXCEPT !.pc = "pause", !.got = outcome]
    /\ UNCHANGED <<coordinator, grouping, decoding, session, framing, teardown>>

\* line 98: sleep(1) is over
discovery_paused ==
    /\ discovery.pc = "pause"
    /\ discovery' = discovery_next_round(discovery)
    /\ UNCHANGED <<coordinator, grouping, decoding, session, framing, teardown>>

DiscoveryNext ==
    \/ discovery_called
    \/ discovery_kick
    \/ discovery_raised
    \/ \E outcome \in KickOutcomes : discovery_waited(outcome)
    \/ discovery_paused

\* an AsyncModbusClient after construction, and its send_udp_discovery calls
\* one after the other
DiscoverySpec == Init /\ [][DiscoveryNext]_vars

\* ------------------------------------------------------------------ Next
Next ==
    \/ Advance /\ UNCHANGED beside_coordinator
    \/ update_data_collector /\ UNCHANGED beside_coordinator
    \/ \E r \in Live : update_data(r) /\ UNCHANGED beside_coordinator
    \/ \E r \in Live : send_udp_discovery(r) /\ UNCHANGED beside_coordinator
    \/ \E r \in Live : udp_ack(r) /\ UNCHANGED beside_coordinator
    \/ \E r \in Live, last \in BOOLEAN : udp_no_ack(r, last) /\ UNCHANGED beside_coordinator
    \/ \E r \in Live : handle_bulk_client(r) /\ UNCHANGED beside_coordinator
    \/ \E r \in Live, res \in PollResults : exchange_done(r, res) /\ UNCHANGED beside_coordinator
    \/ \E r \in Live : exchange_failed(r) /\ UNCHANGED beside_coordinator
    \/ \E r \in Live : response_timed_out(r) /\ UNCHANGED beside_coordinator
    \/ \E r \in Live, last \in BOOLEAN : cleanup_server(r, last) /\ UNCHANGED beside_coordinator
    \/ \E r \in Live : update_sensors(r) /\ UNCHANGED beside_coordinator
    \/ \E r \in Live : backoff_done(r) /\ UNCHANGED beside_coordinator
    \/ \E r \in Live : update_timed_out(r) /\ UNCHANGED beside_coordinator
    \/ \E r \in Live : scheduler_timed_out(r) /\ UNCHANGED beside_coordinator
    \/ \E r \in Live : update_finished(r) /\ UNCHANGED beside_coordinator

Spec == Init /\ [][Next]_vars

TypeOK ==
    /\ ticked \in BOOLEAN
    /\ is_updating \in BOOLEAN
    /\ lock \in 0..MaxRuns
    /\ Len(runs) <= MaxRuns
    /\ stored_by \in 0..MaxRuns
    /\ consecutive_failures >= 0

\* Fairness: time passes; the event loop runs every callback that is ready
\* (a task whose awaited future is done, a timer whose deadline is reached,
\* the first waiter of a released lock) and close() completes.
Fairness ==
    /\ WF_vars(Advance /\ UNCHANGED beside_coordinator)
    /\ \A r \in RunIds :
         /\ WF_vars(r \in Live /\ UNCHANGED beside_coordinator /\ update_data(r))
         /\ WF_vars(r \in Live /\ UNCHANGED beside_coordinator /\ \E last \in BOOLEAN : cleanup_server(r, last))
         /\ WF_vars(r \in Live /\ UNCHANGED beside_coordinator /\ update_sensors(r))
         /\ WF_vars(r \in Live /\ UNCHANGED beside_coordinator /\ backoff_done(r))
         /\ WF_vars(r \in Live /\ UNCHANGED beside_coordinator /\ update_timed_out(r))
         /\ WF_vars(r \in Live /\ UNCHANGED beside_coordinator /\ scheduler_timed_out(r))
         /\ WF_vars(r \in Live /\ UNCHANGED beside_coordinator /\ update_finished(r))

FairSpec == Init /\ [][Next]_vars /\ Fairness

\* ---------------------------------------------------------------- claims
\* the step in which the scheduler fires
Fires == ~ticked /\ ticked'

\* the step in which get_all_data() of run r returns
Returns(r) == ~runs[r].returned /\ runs'[r].returned

C2_TickDropped ==
    [][(Fires /\ is_updating /\ last_update_start # None
              /\ last_update_start <= update_timeout)
        => UNCHANGED <<is_updating, last_update_start, consecutive_failures,
                       data, stored_by, sensors, last_notified,
                       lock, lock_waiters, runs, udp_open, server,
                       active_connections>>]_vars

\* a tick has fired exactly 30 s after the start of the running update and
\* the update is still the running one
C2_Witness ==
    /\ ticked
    /\ is_updating
    /\ last_update_start = update_timeout

\* C3: a tick that fires while is_updating is true and more than 30 s
\* after _last_update_start declares the poll stuck and itself starts a new
\* update: is_updating and _last_update_start are set again and a new run
\* is under way.
C3_StuckTickStarts ==
    [][(Fires /\ is_updating /\ last_update_start # None
              /\ last_update_start > update_timeout)
        => /\ is_updating'
           /\ last_update_start' = 0
           /\ Len(runs') = Len(runs) + 1
           /\ runs'[Len(runs')].pc = "lock"
           /\ runs'[Len(runs)].stuck
           /\ runs'[Len(runs)].pc = runs[Len(runs)].pc]_vars

\* the tick of this instant has bypassed a stuck run and started the next
C3_Witness ==
    /\ ticked
    /\ is_updating
    /\ last_update_start = 0
    /\ \E r \in Live : r + 1 = Len(runs) /\ runs[r].stuck /\ runs[r].pc # "done"

\* C4: when a poll is declared stuck and the in-flight flag is cleared, the
\* stuck poll's transport is torn down by that step: listener closed,
\* tracked connections closed, UDP endpoint disposed.
C4_ForcedClearTearsDown ==
    [][(Fires /\ is_updating /\ last_update_start # None
              /\ last_update_start > update_timeout)
        => (~udp_open' /\ ~server' /\ active_connections' = 0)]_vars

\* C5: after any poll outcome the coordinator comes back to is_updating
\* false with the DataCollector lock free.
C5_Recovers ==
    (\E r \in RunIds : r <= Len(runs) /\ runs[r].pc # "done")
        ~> (~is_updating /\ lock = 0)

\* after a poll that failed, a later tick has started a poll that is running
C5_Witness ==
    \E r1, r2 \in Live :
        /\ r1 < r2
        /\ runs[r1].pc = "done"
        /\ runs[r1].outcome \in {"timeout", "sched_timeout", "failed"}
        /\ runs[r2].pc \in PollPcs

\* C6: when get_all_data returns at least one non-null record, the snapshot
\* (nulls included) is stored and consecutive_failures becomes 0, and the
\* update then refreshes the sensors from that snapshot.
C6_SuccessStored ==
    [][\A r \in Live :
         /\ (Returns(r) /\ runs'[r].result # {})
               => /\ data' = [k \in Keys |-> IF k \in runs'[r].result THEN r ELSE None]
                  /\ consecutive_failures' = 0
                  /\ runs'[r].pc = "stored"
         /\ (runs[r].pc = "stored" /\ runs'[r].pc # "stored")
               => /\ runs'[r].outcome = "success"
                  /\ data' = [k \in Keys |-> IF k \in runs[r].result THEN r ELSE None]
                  /\ consecutive_failures' = 0
                  /\ last_notified' = r
                  /\ \A k \in Keys :
                        IF k \in runs[r].result
                        THEN sensors'[k] = [state |-> r, available |-> TRUE]
                        ELSE ~sensors'[k].available]_vars

\* a partial snapshot (Grid only) has been stored and published by the update
\* that followed a failed one
C6_Witness ==
    \E r \in Live :
        /\ r > 1
        /\ runs[r - 1].outcome = "failed"
        /\ runs[r].outcome = "success"
        /\ runs[r].result = {"grid"}
        /\ last_notified = r
        /\ sensors["grid"].state = r
        /\ ~sensors["battery"].available
        /\ consecutive_failures = 0

\* C7: when get_all_data returns five nulls, consecutive_failures grows by
\* exactly 1 and the update ends only after a backoff of
\* min(30, 2^consecutive_failures) seconds.
C7_EmptyPollBacksOff ==
    [][\A r \in Live :
         /\ (Returns(r) /\ runs'[r].result = {})
               => /\ consecutive_failures' = consecutive_failures + 1
                  /\ runs'[r].pc = "backoff"
                  /\ runs'[r].delay = IF 2 ^ consecutive_failures' < 30
                                      THEN 2 ^ consecutive_failures' ELSE 30
         /\ (runs[r].pc = "backoff" /\ runs'[r].pc # "backoff")
               => runs[r].sleep_age >= runs[r].delay]_vars

\* C8: every poll ended by the update timeout adds exactly 1 to
\* consecutive_failures.
C8_TimeoutCounts ==
    [][\A r \in Live :
         (runs[r].outcome = "none" /\ runs'[r].outcome = "timeout")
             => consecutive_failures' = consecutive_failures + 1]_vars

C10_SnapshotOfOnePoll ==
    \/ stored_by = 0 /\ \A k \in Keys : get_data(k) = None
    \/ /\ stored_by \in Live
       /\ \E res \in PollResults \ {{}} :
             \A k \in Keys : get_data(k) = IF k \in res THEN stored_by ELSE None

\* a Grid-only snapshot has replaced one that had a Battery record: the
\* battery sensor still shows the older poll, get_data does not
C10_Witness ==
    /\ stored_by > 1
    /\ get_data("grid") = stored_by
    /\ get_data("battery") = None
    /\ sensors["battery"].state # None
    /\ sensors["battery"].state # stored_by

\* C11: snapshots are stored and published in the order of the ticks that
\* started their polls, also when a bypassed stuck poll completes later.
C11_PublishedInTickOrder ==
    [][/\ stored_by' >= stored_by
       /\ last_notified' >= last_notified
       /\ last_notified' <= stored_by']_vars

\* a poll that was declared stuck and bypassed has published its snapshot
\* while a poll started by a later tick waits for the lock
C11_Witness ==
    \E r1, r2 \in Live :
        /\ r1 < r2
        /\ runs[r1].stuck
        /\ stored_by = r1
        /\ last_notified = r1
        /\ runs[r2].pc = "lock"

\* C37: a tick that finds is_updating false finds no update of an earlier
\* tick in progress, unless that update was declared stuck: the end of one
\* update does not clear the flag of another that is still running.
C37_FlagOfTheRunningUpdate ==
    [][(Fires /\ ~is_updating)
        => \A r \in Live : runs[r].pc # "done" => runs[r].stuck]_vars

\* the supported addresses of the register map
Supported == {register_map[i] : i \in DOMAIN register_map} \ {0}

\* C19: _create_register_groups returns the same list on every call, every
\* supported address lies in exactly one group, and the groups are
\* ascending and pairwise disjoint, also when two names share an address.
C19_GroupsCoverOnce ==
    calls > 0 =>
        /\ groups = first_groups
        /\ \A a \in Supported :
              Cardinality({i \in DOMAIN groups : InGroup(a, groups[i])}) = 1
        /\ \A i \in DOMAIN groups :
              i < Len(groups) => groups[i][1] + groups[i][2] - 1 < groups[i + 1][1]

\* the groups of a map in which two names share an address have been
\* computed twice and there are several of them
C19_Witness ==
    /\ calls > 1
    /\ Len(groups) > 1
    /\ \E i, j \in DOMAIN register_map :
          i # j /\ register_map[i] = register_map[j] /\ register_map[i] > 0

\* C20: two neighbouring supported addresses a < b are in the same group
\* iff b - a <= 10, and a group is (first address, last - first + 1).
C20_GapRule ==
    calls > 0 =>
        /\ \A a, b \in Supported :
              (a < b /\ ~\E c \in Supported : a < c /\ c < b)
                  => ((\E i \in DOMAIN groups : InGroup(a, groups[i]) /\ InGroup(b, groups[i]))
                        <=> b - a <= 10)
        /\ \A i \in DOMAIN groups :
              /\ groups[i][1] \in Supported
              /\ groups[i][1] + groups[i][2] - 1 \in Supported

\* a gap of exactly 10 has been merged and a gap of 11 has split
C20_Witness ==
    /\ calls > 0
    /\ Supported = {2, 12, 23}
    /\ groups = <<<<2, 11>>, <<23, 1>>>>

RecordFields ==
    [battery |-> BatteryFields, pv |-> PVFields, grid |-> GridFields,
     output |-> OutputFields, system |-> SystemFields]

NamesOf(k) == {RecordFields[k][f] : f \in DOMAIN RecordFields[k]}

AddressOf(name) ==
    register_map[CHOOSE n \in DOMAIN RegisterNames : RegisterNames[n] = name]

\* the groups that read the register of a name
GroupsOf(name) == {i \in DOMAIN groups : InGroup(AddressOf(name), groups[i])}

\* group i feeds record k
Feeds(i, k) == \E name \in NamesOf(k) : i \in GroupsOf(name)

\* the register of a name was decoded in this poll
Got(name) == \E i \in GroupsOf(name) : decoded_groups[i].ok

\* the poll has decoded what came back
Decoded == stage \in {"returned", "stored", "failed"}

\* response i of the poll is of the kind
IsKind(i, kind) ==
    \E m \in Models :
        /\ groups = MODEL_GROUPS[m]
        /\ i <= Len(responses)
        /\ responses[i] = FrameTable[m][i][kind]

\* one group came back with the error indication and every other group with
\* its response
OneErrorOthersGood(e) ==
    /\ Len(responses) = Len(groups)
    /\ IsKind(e, "error")
    /\ \A i \in DOMAIN groups : i # e => IsKind(i, "good")

\* C14: a response whose CRC does not match its length-counted region is
\* never decoded: the slot of its group is null.
C14_BadCrcNotDecoded ==
    Decoded =>
        \A i \in DOMAIN decoded_groups :
            (decoded_groups[i].ok /\ i <= Len(responses)) => crc_matches(responses[i])

\* C13: whichever group returns the error indication while all others
\* succeed, the records the other groups feed are present and the poll
\* counts as a success.
C13_AnyErrorStillSucceeds ==
    \A e \in DOMAIN groups :
        (stage \in {"stored", "failed"} /\ OneErrorOthersGood(e)) =>
            /\ stage = "stored"
            /\ consecutive_failures = 0
            /\ \A k \in Keys :
                  (\E i \in DOMAIN groups : i # e /\ Feeds(i, k)) => all_data[k].present

\* C21: address 0 is in no register group, a name whose address is 0 on the
\* active model gets no value in the values of get_all_data, and the fields
\* it feeds are null in the records that are returned.
C21_UnsupportedStaysNull ==
    /\ \A i \in DOMAIN groups : ~InGroup(0, groups[i])
    /\ Decoded =>
          \A n \in DOMAIN register_map :
              register_map[n] = 0 =>
                  /\ RegisterNames[n] \notin
                        DOMAIN decoded_values(register_map, MODEL_SCALES[model],
                                              groups, decoded_groups)
                  /\ \A k \in Keys : \A f \in DOMAIN RecordFields[k] :
                        RecordFields[k][f] = RegisterNames[n]
                            => all_data[k].fields[f] = NoValue

\* every group of the 6K model, whose pv2, grid current and energy
\* registers have address 0, came back with its response: pv1_voltage and
\* grid_voltage have their values, pv2_voltage and grid_current have none
C21_Witness ==
    /\ model = "ISOLAR_SMG_II_6K"
    /\ stage = "stored"
    /\ \A i \in DOMAIN groups : IsKind(i, "good")
    /\ AddressOf("pv2_voltage") = 0
    /\ AddressOf("grid_current") = 0
    /\ all_data["grid"].fields["voltage"] = [raw |-> 202, per |-> 10]
    /\ {"pv1_voltage", "grid_voltage"} \subseteq
          DOMAIN decoded_values(register_map, MODEL_SCALES[model], groups, decoded_groups)
    /\ {"pv2_voltage", "grid_current"} \cap
          DOMAIN decoded_values(register_map, MODEL_SCALES[model], groups, decoded_groups)
            = {}

\* C25: when operation_mode has been decoded, a SystemStatus is returned;
\* its operating_mode is SUB for the raw value 2, SBU for 3 and FAULT for
\* every other value n, with the mode_name "UNKNOWN(n)".
C25_ModeMapped ==
    (Decoded /\ Got("operation_mode")) =>
        /\ all_data["system"].present
        /\ LET n == InverterRegister(AddressOf("operation_mode"))
           IN  /\ all_data["system"].fields["operating_mode"] =
                     (IF n = 2 THEN "SUB" ELSE IF n = 3 THEN "SBU" ELSE "FAULT")
               /\ n \notin {2, 3} =>
                     all_data["system"].fields["mode_name"] = <<"UNKNOWN(", n, ")">>

\* C26: a Battery record is returned iff all five battery values have been
\* decoded, PV iff any of pv_total_power, pv1_voltage, pv2_voltage, Grid iff
\* any of grid_voltage, grid_power, grid_frequency, Output iff any of
\* output_voltage, output_power; in a record that is returned the fields
\* whose register was not decoded are null.
C26_RecordsFollowRules ==
    Decoded =>
        /\ all_data["battery"].present <=> \A name \in NamesOf("battery") : Got(name)
        /\ all_data["pv"].present
              <=> \E name \in {"pv_total_power", "pv1_voltage", "pv2_voltage"} : Got(name)
        /\ all_data["grid"].present
              <=> \E name \in {"grid_voltage", "grid_power", "grid_frequency"} : Got(name)
        /\ all_data["output"].present
              <=> \E name \in {"output_voltage", "output_power"} : Got(name)
        /\ \A k \in {"battery", "pv", "grid", "output"} :
              \A f \in DOMAIN RecordFields[k] :
                  all_data[k].present =>
                      (all_data[k].fields[f] = NoValue <=> ~Got(RecordFields[k][f]))

\* C27: a SystemStatus is returned iff operation_mode has been decoded,
\* and its inverter_time is there iff the six time registers have been
\* decoded and make a date.
C27_StatusIffMode ==
    Decoded =>
        /\ all_data["system"].present <=> Got("operation_mode")
        /\ all_data["system"].present =>
              /\ "inverter_time" \in DOMAIN all_data["system"].fields
              /\ (\E i \in 0..5 : ~Got(RegisterNames[27 + i]))
                    => all_data["system"].fields["inverter_time"] = <<>>

\* C28: the model name and the register map always belong together, also
\* right after update_model; a poll that starts builds the register groups
\* of the model of the last update_model call, and a poll that returns has
\* decoded with the register map and the scale factors of that model.
C28_ModelReplacedAtOnce ==
    [][/\ register_map = MODEL_CONFIGS[model]
       /\ register_map' = MODEL_CONFIGS[model']
       /\ calls' = calls + 1 => groups' = MODEL_GROUPS[model]
       /\ (stage = "received" /\ stage' = "returned") =>
             all_data' = create_data(decoded_values(MODEL_CONFIGS[model], MODEL_SCALES[model],
                                                    groups, decoded_groups'))]_vars

\* after a poll of the 11K model, update_model has made the 6K model the
\* active one, and the next poll has read the two groups of the 6K map and
\* scaled grid_voltage, register 202 of that map
C28_Witness ==
    /\ calls = 2
    /\ first_groups = MODEL_GROUPS["ISOLAR_SMG_II_11K"]
    /\ model = "ISOLAR_SMG_II_6K"
    /\ groups = MODEL_GROUPS["ISOLAR_SMG_II_6K"]
    /\ stage = "stored"
    /\ all_data["grid"].fields["voltage"] = [raw |-> 202, per |-> 10]

\* C38: the register map that names and scales the responses of a poll is
\* the map from which the register groups of that poll were built, also
\* when update_model is called while the poll is suspended in send_bulk.
C38_OneMapPerPoll ==
    [][(stage = "received" /\ stage' = "returned")
        => (/\ groups = MODEL_GROUPS[model]
            /\ groups = create_register_groups(register_map))]_vars

C23_RequestRoundTrip ==
    /\ codec.pc \in {"built", "parsed", "decoded"} =>
          /\ 256 * codec.request[1] + codec.request[2] = codec.tx
          /\ 256 * codec.request[5] + codec.request[6] = Len(codec.request) - 6
          /\ codec.request[7] = 255
    /\ codec.pc \in {"parsed", "decoded"} =>
          /\ Len(codec.registers) = codec.count
          /\ \A i \in DOMAIN codec.registers : codec.registers[i] = codec.start + i - 1

\* the request for 125 registers from 703 on with transaction id 0xFFFF has
\* been parsed
C23_Witness ==
    /\ codec.pc = "parsed"
    /\ codec.tx = 65535
    /\ codec.start = 703
    /\ codec.count = 125
    /\ Len(codec.registers) = 125
    /\ codec.registers[125] = 827

\* C24: decode_modbus_response returns, for every register word of a
\* response, the word read as two's complement in Int format and the word
\* itself in UnsignedInt format.
C24_WordsDecoded ==
    codec.pc = "decoded" =>
        /\ codec.decoded.ok
        /\ Len(codec.decoded.values) = Len(codec.words)
        /\ \A j \in DOMAIN codec.words :
              codec.decoded.values[j] =
                  IF codec.data_format = "Int" /\ codec.words[j] >= 32768
                  THEN codec.words[j] - 65536
                  ELSE codec.words[j]

\* 0xFFF6 and 0x7FFF have been decoded in Int format to -10 and 32767
C24_Witness ==
    /\ codec.pc = "decoded"
    /\ codec.data_format = "Int"
    /\ codec.words = <<65526, 32767>>
    /\ codec.decoded.values = <<-10, 32767>>

\* ------------------------------------------------------ claims on sessions
\* caller c has just built its requests
Called(c) == senders[c].pc = "idle" /\ senders'[c].pc # "idle"

\* C12: the result of a poll has one slot per register group, and a slot
\* that is not null was decoded from the response to the request of its own
\* group.
C12_SlotsAligned ==
    stage = "returned" =>
        /\ Len(decoded_groups) = Len(groups)
        /\ \A i \in DOMAIN decoded_groups :
              decoded_groups[i].ok => (i <= Len(origin) /\ origin[i].req = i)

\* C15: during one attempt the server accepts one connection and no more,
\* and no request is answered a second time into the responses list.
C15_OneConnectionServed ==
    /\ accepted <= 1
    /\ \A i, j \in DOMAIN bulk : i # j => bulk[i].req # bulk[j].req

\* C16: at every instant at most one TCP listener is bound by the client.
C16_OneListener == listeners <= 1

\* a listener is bound in a retry of the register_scan call that got the
\* client lock after the poll was cancelled
C16_Witness ==
    /\ listeners = 1
    /\ stage = "cancelled"
    /\ senders[2].pc = "listen"
    /\ senders[2].attempt > 0

\* C17: a call in which no kick has been acknowledged sends no kick after
\* the third.
C17_ThreeKicksThenGiveUp ==
    \A c \in Callers :
        (senders[c].pc = "discover" /\ ~senders[c].acked) => senders[c].attempt = 0

\* C18: the counter stays within 0..0xFFFF, the requests of one call take
\* the ids counter, counter + 1, ... modulo 2^16, the counter advances by
\* the number of requests and by nothing else, and the ids of one session
\* are pairwise distinct.
C18_ConsecutiveIds ==
    [][/\ transaction_id' \in 0..65535
       /\ \A c \in Callers :
             Called(c) =>
                /\ \A i \in DOMAIN senders'[c].requests :
                      request_tx(senders'[c].requests[i]) = (transaction_id + i - 1) % 65536
                /\ transaction_id' = (transaction_id + Len(senders'[c].requests)) % 65536
                /\ \A i, j \in DOMAIN senders'[c].requests :
                      i # j => request_tx(senders'[c].requests[i])
                                  # request_tx(senders'[c].requests[j])
       /\ (\A c \in Callers : ~Called(c)) => transaction_id' = transaction_id]_vars

\* the two requests of a poll have taken 0xFFFF and 0x0000
C18_Witness ==
    /\ Len(senders[1].requests) = 2
    /\ request_tx(senders[1].requests[1]) = 65535
    /\ request_tx(senders[1].requests[2]) = 0
    /\ transaction_id = 1

\* C35: the transaction id counter and the active model with its register
\* map change only in the step in which the poll builds its requests: no
\* register_scan or device_scan call and no model update of the options
\* flow changes them.
C35_OnlyThePollMutates ==
    [][(transaction_id' # transaction_id \/ model' # model \/ register_map' # register_map)
        => (IsPoll(1) /\ Called(1))]_vars

\* C29: the wait of an attempt is given up by its timeout only when no
\* connection has been accepted: an exchange on an accepted connection is
\* not aborted and the responses it has collected are not dropped.
C29_TimeoutOnlyWithoutConnection ==
    [][\A c \in Callers :
          (/\ senders[c].pc = "listen"
           /\ response_future = "pending"
           /\ senders'[c].pc # "listen"
           /\ stage' # "cancelled")
              => (accepted = 0 /\ bulk = <<>>)]_vars

\* C30: on the one connection of an attempt nothing is written after a read
\* that failed, so nothing follows an empty read in the responses list; the
\* poll gets the responses read before the failure, and the slots from the
\* failed one on are null.
C30_StopsAtFailedRead ==
    /\ accepted <= 1 =>
          \A i \in DOMAIN bulk : bulk[i].kind = "empty" => i = Len(bulk)
    /\ stage = "returned" =>
          /\ Len(decoded_groups) = Len(groups)
          /\ \A j \in DOMAIN decoded_groups :
                decoded_groups[j].ok <=> (j <= Len(origin) /\ origin[j].kind = "good")

\* ----------------------------------------------------- claims on discovery
\* the step in which send_udp_discovery returns
DiscoveryReturns == discovery.pc # "idle" /\ discovery'.pc = "idle"

\* C33: one send_udp_discovery call sends at most 3 kicks; it returns True
\* in the step in which a wait is ended by a datagram, and only then, with
\* the failure counter at 0; it returns False only out of the third round,
\* with the counter one higher; no other step changes the counter.
C33_ThreeKicks ==
    [][/\ discovery'.kicks <= 3
       /\ (discovery.pc = "waiting" /\ discovery'.got = "datagram")
             => (DiscoveryReturns /\ discovery'.result = "true")
       /\ (DiscoveryReturns /\ discovery'.result = "true")
             => (/\ discovery.pc = "waiting"
                 /\ discovery'.got = "datagram"
                 /\ discovery'.failures = 0)
       /\ (DiscoveryReturns /\ discovery'.result # "true")
             => (/\ discovery'.result = "false"
                 /\ discovery.attempt = 2
                 /\ discovery'.got # "datagram"
                 /\ discovery'.failures = discovery.failures + 1)
       /\ ~DiscoveryReturns => discovery'.failures = discovery.failures]_vars

\* after two calls that failed, a call has returned True on its third kick
\* and the counter is back at 0
C33_Witness ==
    /\ discovery.pc = "idle"
    /\ discovery.result = "true"
    /\ discovery.last = "false"
    /\ discovery.kicks = 3
    /\ discovery.timeout = 15
    /\ discovery.failures = 0

\* C34: the timeout of the waits of a call is min(30, 5 * (1 + failures)),
\* so it lies between 5 and 30, and it is 5 in the call that follows a
\* call that was acknowledged.
C34_AdaptiveTimeout ==
    discovery.pc # "idle" =>
        /\ discovery.timeout =
              (IF 5 * (1 + discovery.failures) < 30 THEN 5 * (1 + discovery.failures) ELSE 30)
        /\ discovery.timeout \in 5..30
        /\ discovery.last = "true" => discovery.timeout = 5

\* a kick waits 30 s after six failures in a row, where the product is 35
C34_Witness ==
    /\ discovery.pc = "waiting"
    /\ discovery.failures = 6
    /\ discovery.timeout = 30

\* ------------------------------------------ claims on what is left behind
\* a step in which a handle_bulk_client task that still serves its attempt
\* writes a command and reads
ServedWrite ==
    /\ conns' # conns
    /\ accepted' = accepted
    /\ active_connections' = active_connections
    /\ unserved' = unserved

\* the tasks that write a command in a step after their attempt is over
StrayWriters == {s \in BagToSet(strays') : CopiesIn(s, strays') > CopiesIn(s, strays)}

\* C31: every frame a handler writes is written while the send_bulk call
\* that made the handler's server is inside the lock, so that frames of two
\* bulk exchanges are never interleaved.
C31_FramesUnderTheLock == [][/\ ServedWrite => \E c \in Listening : client_lock = c
                            /\ \A s \in StrayWriters : client_lock = s.caller]_vars

\* C32: once every send_bulk call has returned or was cancelled, no listener
\* is bound and no inbound connection is open or tracked.
C32_NothingLeftOpen == (\A c \in Callers : senders[c].pc = "idle") => (~server /\ listeners = 0 /\ active_connections = 0 /\ conns = EmptyBag /\ unserved = EmptyBag /\ strays = EmptyBag)

\* ------------------------------------------- claims on termination
\* the attempts, kicks and listeners of the calls under way, and the lock
\* of the callers that are not inside send_bulk
SendBulkWithinBounds ==
    /\ listeners <= 1
    /\ \A c \in Callers :
          /\ senders[c].attempt \in 0..(retry_count - 1)
          /\ senders[c].kick \in 0..(discovery_attempts - 1)
          /\ senders[c].pc \in {"idle", "lock"} => client_lock # c

\* the poll's send_bulk returns in this step, its last attempt without a
\* response
ReturnsWithoutResponse ==
    /\ senders[1].pc \in {"discover", "listen"}
    /\ senders'[1].pc = "idle"
    /\ stage' = "returned"
    /\ bulk = <<>>

\* C39: every send_bulk call ends whatever the inverter does; it makes at
\* most retry_count attempts of at most 3 kicks and one listener each, it
\* returns an empty list when no attempt brought a response, and the lock
\* is released when it is over.
C39_SendBulkTerminates ==
    /\ []SendBulkWithinBounds
    /\ [][ReturnsWithoutResponse =>
             (origin' = <<>> /\ senders[1].attempt = retry_count - 1 /\ client_lock' # 1)]_vars
    /\ \A c \in Callers : (senders[c].pc # "idle") ~> (senders[c].pc = "idle")

C39_Witness ==
    /\ senders[1].pc = "discover"
    /\ senders[1].attempt = retry_count - 1
    /\ senders[1].kick = discovery_attempts - 1
    /\ client_lock = 1
    /\ client_waiters = <<2>>
    /\ listeners = 0

====
